---- MODULE Spec2Model ----
(***************************************************************************)
(* State-machine model of the memory-storage repository:                   *)
(*   - BTreeIndexedStorage (append-log store with tombstones and           *)
(*     compaction) and SimpleFastStorage,                                  *)
(*   - ByteKeyBTree (TTL index over polymorphic records).                  *)
(* Every public method of BTreeIndexedStorage holds s.mu for its whole     *)
(* body, so each method is one atomic action; a compaction launched with   *)
(* `go` is a pending goroutine that runs later as its own atomic action.   *)
(***************************************************************************)
EXTENDS Integers, Sequences, FiniteSets, TLC

(***************************************************************************)
(* Bounds of the model.                                                    *)
(***************************************************************************)
NumKeys == 2        \* distinct [8]byte keys offered to the stores
MaxSlots == 2       \* cap on len(storage) (guard of Add)
MaxPending == 2     \* cap on launched, not yet run, background compactions
NumProcs == 2       \* goroutines that call the stores concurrently
MaxRetries == 3     \* largest Manager.maxRetries of a run

KeyLen == 8         \* type key [8]byte

Nil == "nil"        \* the nil []byte
Values == {Nil, "foo", "bar"}

\* The threshold is a float64; the model draws it from exact fractions
\* <<num, den>> and compares tombstones/len(storage) with num/den exactly.
Thresholds == {<<1, 3>>, <<1, 2>>}

BatchSizes == {0, 1, 2}

(***************************************************************************)
(* Keys: [8]byte arrays, ordered by bytes.Compare.                         *)
(***************************************************************************)
MkKey(i) ==
    [j \in 1..KeyLen |-> IF j = 1 THEN i \div 2
                         ELSE IF j = KeyLen THEN i % 2
                         ELSE 0]

Keys == {MkKey(i) : i \in 1..NumKeys}

RECURSIVE BytesCompare(_, _)
BytesCompare(a, b) ==
    IF a = <<>> /\ b = <<>> THEN 0
    ELSE IF a = <<>> THEN -1
    ELSE IF b = <<>> THEN 1
    ELSE IF Head(a) < Head(b) THEN -1
    ELSE IF Head(a) > Head(b) THEN 1
    ELSE BytesCompare(Tail(a), Tail(b))

\* entry.Less
EntryLess(a, b) == BytesCompare(a, b) < 0

\* The keys of S in the order tree.Ascend visits them.
RECURSIVE Ascend(_)
Ascend(S) ==
    IF S = {} THEN <<>>
    ELSE LET m == CHOOSE x \in S : \A y \in S \ {x} : EntryLess(x, y)
         IN <<m>> \o Ascend(S \ {m})

Range(f) == {f[x] : x \in DOMAIN f}

VARIABLES
    target,      \* which store the run drives: "btree" or "simple"
    tree,        \* BTreeIndexedStorage.tree: key -> pos (0-based)
    storage,     \* BTreeIndexedStorage.storage: sequence of values, Nil = cleared
    tombstones,  \* BTreeIndexedStorage.tombstones
    threshold,   \* BTreeIndexedStorage.threshold, <<num, den>>
    batchSize,   \* BTreeIndexedStorage.batchSize
    pending,     \* goroutines started by `go s.CompactIncremental()`, not yet run
    slotKey,     \* history: the key whose Add appended each slot of storage
    live,        \* history: keys added and not deleted since
    scenario,    \* history: progress of a run of the shape add*, delete*, compact
    last,        \* the last operation, its arguments and results
    sset,        \* SimpleFastStorage.set: key -> pos
    sstorage,    \* SimpleFastStorage.storage
    ttlTree,     \* ByteKeyBTree.tree: key -> the item object stored for it
    timestampUnixSeconds, \* the timestamp field of every item object
    purge,       \* the PurgeExpiredAt call in flight: its locals and phase
    mu,          \* the sync.RWMutex of the store: its writer and its readers
    procs,       \* per goroutine: the call it is in and how far it has got
    maxRetries,  \* Manager.maxRetries
    txn          \* the call of the transaction manager in progress: its
                 \* locals, its context, its transaction and what it returned

storeVars == <<tree, storage, tombstones, threshold, batchSize, pending, slotKey>>
histVars == <<live, scenario>>
simpleVars == <<sset, sstorage>>
ttlVars == <<ttlTree, timestampUnixSeconds, purge>>
lockVars == <<mu, procs>>
txVars == <<maxRetries, txn>>
vars == <<target, tree, storage, tombstones, threshold, batchSize, pending,
          slotKey, live, scenario, last, sset, sstorage,
          ttlTree, timestampUnixSeconds, purge, mu, procs, maxRetries, txn>>

EmptyMap == [x \in {} |-> 0]

NoOp == [op |-> "none"]

\* goroutines, the unlocked mutex and a goroutine that is in no call
Procs == 1..NumProcs
Unlocked == [w |-> 0, r |-> {}]
NotRunning == [op |-> "idle", pc |-> "idle"]

\* no call of the transaction manager yet
NoTxn == [fn |-> "none", pc |-> "idle"]

\* s.storage[pos] for a 0-based pos
Slot(st, pos) == st[pos + 1]

(***************************************************************************)
(* ByteKeyBTree, the TTL index: times, items and keys.                     *)
(*                                                                         *)
(* A time.Time is a number of ticks since the epoch and a time.Duration a  *)
(* number of ticks; a second has TicksPerSecond ticks, so that instants    *)
(* between two whole seconds exist.                                        *)
(***************************************************************************)
TicksPerSecond == 2
MaxTick == 3
MaxTTL == 2
MaxLimit == 1

Times == 0..MaxTick
Durations == -1..MaxTTL
Limits == -1..MaxLimit

\* time.Time.Unix(): the whole seconds since the epoch, rounded down
Unix(t) == t \div TicksPerSecond

\* now.Add(-ttl)
TimeAdd(t, d) == t + d

\* The item objects callers hold.  Two objects are the same object iff
\* their id is the same; kind and keyBytes never change, the timestamp of
\* an object is the variable timestampUnixSeconds.  TTL keys are byte
\* sequences of any length, the empty one included.
NodeItems ==
    { [id |-> 1, kind |-> "FilterNodeItem", keyBytes |-> <<1>>, valueBytes |-> Nil],
      [id |-> 2, kind |-> "ValueNodeItem", keyBytes |-> <<1>>, valueBytes |-> "foo"],
      [id |-> 3, kind |-> "FilterNodeItem", keyBytes |-> <<1, 2>>, valueBytes |-> Nil],
      [id |-> 4, kind |-> "FilterNodeItem", keyBytes |-> <<2>>, valueBytes |-> Nil],
      [id |-> 5, kind |-> "FilterNodeItem", keyBytes |-> <<>>, valueBytes |-> Nil] }

\* The objects of one run: three keys with one object each, or two keys one
\* of which has two objects; an object with the empty key in both.
ItemPools ==
    { {o \in NodeItems : o.id \in {1, 3, 4, 5}},
      {o \in NodeItems : o.id \in {1, 2, 3, 5}} }

\* the nil Item
NilItem == [id |-> 0, kind |-> "nil", keyBytes |-> <<>>, valueBytes |-> Nil]

\* no PurgeExpiredAt call in flight
NoPurge == [pc |-> "idle"]

(***************************************************************************)
(* NewBTreeIndexedStorage / NewSimpleFastStorage.  A run drives one of the *)
(* two stores; the other stays as constructed.                             *)
(***************************************************************************)
StoreInit ==
    /\ target \in {"btree", "simple"}
    /\ tree = EmptyMap
    /\ storage = <<>>
    /\ tombstones = 0
    /\ IF target = "btree"
       THEN threshold \in Thresholds /\ batchSize \in BatchSizes
       ELSE threshold = <<1, 2>> /\ batchSize = 0
    /\ pending = 0
    /\ slotKey = <<>>
    /\ sset = EmptyMap
    /\ sstorage = <<>>
    /\ live = {}
    /\ scenario = [phase |-> "adding", deleted |-> {}]
    /\ last = NoOp
    /\ ttlTree = EmptyMap
    /\ timestampUnixSeconds = [o \in {} |-> 0]
    /\ purge = NoPurge
    /\ mu = Unlocked
    /\ procs = [p \in Procs |-> NotRunning]
    /\ maxRetries = 1
    /\ txn = NoTxn

(***************************************************************************)
(* BTreeIndexedStorage.Add                                                 *)
(***************************************************************************)
\* a plausible slip: Add as an upsert that overwrites the slot of an
\* indexed key
AddUpsert(t, st, k, v) ==
    IF k \in DOMAIN t
    THEN [tree |-> t, storage |-> [st EXCEPT ![t[k] + 1] = v]]
    ELSE [tree |-> t @@ (k :> Len(st)), storage |-> Append(st, v)]

\* a plausible slip: Add reuses the first cleared slot instead of appending
AddReuseSlot(t, st, k, v) ==
    IF k \in DOMAIN t
    THEN [tree |-> t, storage |-> st]
    ELSE IF \E i \in 1..Len(st) : st[i] = Nil /\ i - 1 \notin Range(t)
    THEN LET i == CHOOSE j \in 1..Len(st) : st[j] = Nil /\ j - 1 \notin Range(t)
         IN [tree |-> t @@ (k :> i - 1), storage |-> [st EXCEPT ![i] = v]]
    ELSE [tree |-> t @@ (k :> Len(st)), storage |-> Append(st, v)]

\* a plausible slip: the position is taken after the append
AddPosAfterAppend(t, st, k, v) ==
    IF k \in DOMAIN t
    THEN [tree |-> t, storage |-> st]
    ELSE [tree |-> t @@ (k :> Len(st) + 1), storage |-> Append(st, v)]

\* the tree and storage Add leaves behind
AddResult(t, st, k, v) ==
    IF k \in DOMAIN t
    THEN [tree |-> t, storage |-> st]
    ELSE [tree |-> t @@ (k :> Len(st)), storage |-> Append(st, v)]

Add(k, v) ==
    /\ target = "btree"
    /\ tree' = AddResult(tree, storage, k, v).tree
    /\ storage' = AddResult(tree, storage, k, v).storage
    /\ slotKey' = IF Len(AddResult(tree, storage, k, v).storage) > Len(storage)
                  THEN Append(slotKey, k) ELSE slotKey
    /\ last' = [op |-> "Add", key |-> k, val |-> v, dup |-> k \in DOMAIN tree]
    /\ UNCHANGED <<target, txVars, tombstones, threshold, batchSize, pending, simpleVars>>

(***************************************************************************)
(* BTreeIndexedStorage.Get / Len                                           *)
(***************************************************************************)
GetResult(t, st, k) ==
    IF k \notin DOMAIN t
    THEN [val |-> Nil, found |-> FALSE]
    ELSE [val |-> Slot(st, t[k]), found |-> TRUE]

Get(k) ==
    /\ target = "btree"
    /\ last' = [op |-> "Get", key |-> k,
                val |-> GetResult(tree, storage, k).val,
                found |-> GetResult(tree, storage, k).found]
    /\ UNCHANGED <<target, txVars, storeVars, simpleVars>>

LenResult(t) == Cardinality(DOMAIN t)

\* bound: an Add that appends is offered only below cap slots
Room(cap, k) == Len(storage) < cap \/ k \in DOMAIN tree

LenOp ==
    /\ target = "btree"
    /\ last' = [op |-> "Len", n |-> LenResult(tree)]
    /\ UNCHANGED <<target, txVars, storeVars, simpleVars>>

(***************************************************************************)
(* BTreeIndexedStorage.Delete                                              *)
(***************************************************************************)
\* a plausible slip: >= instead of >
OverThresholdOrEqual(tomb, n, th) == tomb * th[2] >= th[1] * n

\* float64(s.tombstones)/float64(len(s.storage)) > s.threshold
OverThreshold(tomb, n, th) == tomb * th[2] > th[1] * n

\* a plausible slip: the counter is incremented before the nil check
DeleteCountsMisses(t, st, tomb, th, k) ==
    IF k \in DOMAIN t
    THEN [tree |-> [x \in DOMAIN t \ {k} |-> t[x]],
          storage |-> [st EXCEPT ![t[k] + 1] = Nil],
          tombstones |-> tomb + 1,
          launch |-> OverThreshold(tomb + 1, Len(st), th)]
    ELSE [tree |-> t, storage |-> st, tombstones |-> tomb + 1, launch |-> FALSE]

\* what Delete leaves behind, and whether it runs `go s.CompactIncremental()`
DeleteResult(t, st, tomb, th, k) ==
    IF k \in DOMAIN t
    THEN [tree |-> [x \in DOMAIN t \ {k} |-> t[x]],
          storage |-> [st EXCEPT ![t[k] + 1] = Nil],
          tombstones |-> tomb + 1,
          launch |-> OverThreshold(tomb + 1, Len(st), th)]
    ELSE [tree |-> t, storage |-> st, tombstones |-> tomb, launch |-> FALSE]

\* what a single-flight guard would do: no launch while a launched
\* compaction has not run yet
DeleteSingleFlight(k) ==
    LET r == DeleteResult(tree, storage, tombstones, threshold, k)
    IN /\ target = "btree"
       /\ tree' = r.tree
       /\ storage' = r.storage
       /\ tombstones' = r.tombstones
       /\ pending' = IF r.launch /\ pending = 0 THEN pending + 1 ELSE pending
       /\ last' = [op |-> "Delete", key |-> k, found |-> k \in DOMAIN tree,
                   launched |-> r.launch]
       /\ UNCHANGED <<target, txVars, threshold, batchSize, slotKey, simpleVars>>

Delete(k) ==
    LET r == DeleteResult(tree, storage, tombstones, threshold, k)
    IN /\ target = "btree"
       /\ r.launch => pending < MaxPending
       /\ tree' = r.tree
       /\ storage' = r.storage
       /\ tombstones' = r.tombstones
       /\ pending' = IF r.launch THEN pending + 1 ELSE pending
       /\ last' = [op |-> "Delete", key |-> k, found |-> k \in DOMAIN tree,
                   launched |-> r.launch]
       /\ UNCHANGED <<target, txVars, threshold, batchSize, slotKey, simpleVars>>

(***************************************************************************)
(* BTreeIndexedStorage.CompactIncremental                                  *)
(***************************************************************************)
\* a plausible slip: the copied entry keeps its old position
RECURSIVE CompactScanKeepPos(_, _, _, _, _, _, _)
CompactScanKeepPos(t, st, bs, ks, newStorage, newTree, count) ==
    IF ks = <<>>
    THEN [storage |-> newStorage, tree |-> newTree, count |-> count]
    ELSE LET k == Head(ks)
             val == Slot(st, t[k])
             ns == IF val # Nil THEN Append(newStorage, val) ELSE newStorage
             nt == IF val # Nil THEN newTree @@ (k :> t[k]) ELSE newTree
         IN IF bs > 0 /\ count + 1 >= bs
            THEN [storage |-> ns, tree |-> nt, count |-> count + 1]
            ELSE CompactScanKeepPos(t, st, bs, Tail(ks), ns, nt, count + 1)

\* The Ascend callback applied to the keys ks (in visiting order), from the
\* accumulated newStorage, newTree and count; the scan stops when the
\* callback returns false.
RECURSIVE CompactScan(_, _, _, _, _, _, _)
CompactScan(t, st, bs, ks, newStorage, newTree, count) ==
    IF ks = <<>>
    THEN [storage |-> newStorage, tree |-> newTree, count |-> count]
    ELSE LET k == Head(ks)
             val == Slot(st, t[k])
             ns == IF val # Nil THEN Append(newStorage, val) ELSE newStorage
             nt == IF val # Nil THEN newTree @@ (k :> Len(newStorage)) ELSE newTree
         IN IF bs > 0 /\ count + 1 >= bs
            THEN [storage |-> ns, tree |-> nt, count |-> count + 1]
            ELSE CompactScan(t, st, bs, Tail(ks), ns, nt, count + 1)

\* what the else branch's comment asks for: an interrupted scan does not
\* replace the store
CompactKeepWhenInterrupted(t, st, tomb, bs) ==
    LET r == CompactScan(t, st, bs, Ascend(DOMAIN t), <<>>, EmptyMap, 0)
    IN IF r.count < bs \/ bs = 0 \/ r.count = Cardinality(DOMAIN t)
       THEN [storage |-> r.storage, tree |-> r.tree, tombstones |-> 0,
             count |-> r.count]
       ELSE [storage |-> st, tree |-> t, tombstones |-> tomb, count |-> r.count]

\* a plausible slip: the branch of an interrupted scan forgets to reset the
\* counter
CompactKeepsCounter(t, st, tomb, bs) ==
    LET r == CompactScan(t, st, bs, Ascend(DOMAIN t), <<>>, EmptyMap, 0)
    IN IF r.count < bs \/ bs = 0
       THEN [storage |-> r.storage, tree |-> r.tree, tombstones |-> 0,
             count |-> r.count]
       ELSE [storage |-> r.storage, tree |-> r.tree, tombstones |-> tomb,
             count |-> r.count]

\* a plausible slip: make([][]byte, len(s.storage)) instead of
\* make([][]byte, 0, len(s.storage)), so the copies are appended behind
\* len(s.storage) nil slots
CompactMakeWithLen(t, st, tomb, bs) ==
    LET r == CompactScan(t, st, bs, Ascend(DOMAIN t),
                         [i \in 1..Len(st) |-> Nil], EmptyMap, 0)
    IN IF r.count < bs \/ bs = 0
       THEN [storage |-> r.storage, tree |-> r.tree, tombstones |-> 0,
             count |-> r.count]
       ELSE [storage |-> r.storage, tree |-> r.tree, tombstones |-> 0,
             count |-> r.count]

\* The state CompactIncremental installs: both branches of its final if
\* replace the store by what the scan built and reset the counter.
CompactResult(t, st, tomb, bs) ==
    LET r == CompactScan(t, st, bs, Ascend(DOMAIN t), <<>>, EmptyMap, 0)
    IN IF r.count < bs \/ bs = 0
       THEN [storage |-> r.storage, tree |-> r.tree, tombstones |-> 0,
             count |-> r.count]
       ELSE [storage |-> r.storage, tree |-> r.tree, tombstones |-> 0,
             count |-> r.count]

\* history: the owner key of each slot of a freshly built store
OwnerKeys(t, st) ==
    [i \in 1..Len(st) |->
        IF \E k \in DOMAIN t : t[k] = i - 1
        THEN CHOOSE k \in DOMAIN t : t[k] = i - 1
        ELSE <<>>]

CompactBody(bg) ==
    LET r == CompactResult(tree, storage, tombstones, batchSize)
    IN /\ target = "btree"
       /\ storage' = r.storage
       /\ tree' = r.tree
       /\ tombstones' = r.tombstones
       /\ slotKey' = OwnerKeys(r.tree, r.storage)
       /\ last' = [op |-> "Compact", bg |-> bg,
                   indexed |-> Cardinality(DOMAIN tree), scanned |-> r.count]
       /\ UNCHANGED <<target, txVars, threshold, batchSize, simpleVars>>

\* a direct call of s.CompactIncremental()
CompactIncremental ==
    /\ CompactBody(FALSE)
    /\ UNCHANGED pending

\* a goroutine started by Delete gets the lock and runs CompactIncremental
BackgroundCompact ==
    /\ pending > 0
    /\ pending' = pending - 1
    /\ CompactBody(TRUE)

(***************************************************************************)
(* SimpleFastStorage.Add / Get                                             *)
(***************************************************************************)
SimpleAddResult(m, st, k, v) ==
    IF k \notin DOMAIN m
    THEN [set |-> m @@ (k :> Len(st)), storage |-> Append(st, v)]
    ELSE [set |-> m, storage |-> st]

SimpleAdd(k, v) ==
    /\ target = "simple"
    /\ sset' = SimpleAddResult(sset, sstorage, k, v).set
    /\ sstorage' = SimpleAddResult(sset, sstorage, k, v).storage
    /\ last' = [op |-> "SimpleAdd", key |-> k, val |-> v, dup |-> k \in DOMAIN sset]
    /\ UNCHANGED <<target, txVars, storeVars>>

SimpleGetResult(m, st, k) ==
    IF k \in DOMAIN m
    THEN [val |-> Slot(st, m[k]), found |-> TRUE]
    ELSE [val |-> Nil, found |-> FALSE]

SimpleGet(k) ==
    /\ target = "simple"
    /\ last' = [op |-> "SimpleGet", key |-> k,
                val |-> SimpleGetResult(sset, sstorage, k).val,
                found |-> SimpleGetResult(sset, sstorage, k).found]
    /\ UNCHANGED <<target, txVars, storeVars, simpleVars>>

StoreNext ==
    \/ \E k \in Keys, v \in Values :
          Room(MaxSlots, k) /\ Add(k, v) /\ UNCHANGED <<histVars, ttlVars, lockVars>>
    \/ \E k \in Keys : Get(k) /\ UNCHANGED <<histVars, ttlVars, lockVars>>
    \/ LenOp /\ UNCHANGED <<histVars, ttlVars, lockVars>>
    \/ \E k \in Keys : Delete(k) /\ UNCHANGED <<histVars, ttlVars, lockVars>>
    \/ CompactIncremental /\ UNCHANGED <<histVars, ttlVars, lockVars>>
    \/ BackgroundCompact /\ UNCHANGED <<histVars, ttlVars, lockVars>>
    \/ \E k \in Keys, v \in Values : SimpleAdd(k, v) /\ UNCHANGED <<histVars, ttlVars, lockVars>>
    \/ \E k \in Keys : SimpleGet(k) /\ UNCHANGED <<histVars, ttlVars, lockVars>>

StoreSpec == StoreInit /\ [][StoreNext]_vars

(***************************************************************************)
(* The B-tree store driven with non-nil values only: Add, Get, Len, Delete *)
(* and direct and background CompactIncremental in every order.            *)
(***************************************************************************)
NonNilValues == Values \ {Nil}

NonNilNext ==
    \/ \E k \in Keys, v \in NonNilValues :
          Room(MaxSlots, k) /\ Add(k, v) /\ UNCHANGED <<histVars, ttlVars, lockVars>>
    \/ \E k \in Keys : Get(k) /\ UNCHANGED <<histVars, ttlVars, lockVars>>
    \/ LenOp /\ UNCHANGED <<histVars, ttlVars, lockVars>>
    \/ \E k \in Keys : Delete(k) /\ UNCHANGED <<histVars, ttlVars, lockVars>>
    \/ CompactIncremental /\ UNCHANGED <<histVars, ttlVars, lockVars>>
    \/ BackgroundCompact /\ UNCHANGED <<histVars, ttlVars, lockVars>>

NonNilInit ==
    /\ target = "btree"
    /\ tree = EmptyMap
    /\ storage = <<>>
    /\ tombstones = 0
    /\ threshold \in Thresholds
    /\ batchSize \in BatchSizes
    /\ pending = 0
    /\ slotKey = <<>>
    /\ sset = EmptyMap
    /\ sstorage = <<>>
    /\ live = {}
    /\ scenario = [phase |-> "adding", deleted |-> {}]
    /\ last = NoOp
    /\ ttlTree = EmptyMap
    /\ timestampUnixSeconds = [o \in {} |-> 0]
    /\ purge = NoPurge
    /\ mu = Unlocked
    /\ procs = [p \in Procs |-> NotRunning]
    /\ maxRetries = 1
    /\ txn = NoTxn

NonNilSpec == NonNilInit /\ [][NonNilNext]_vars

(***************************************************************************)
(* The B-tree store with its history: which keys a caller expects to be    *)
(* live, and how far a run of the shape add*, delete*, compact has got     *)
(* (adds of distinct keys with non-nil values, then deletes of some but    *)
(* not all of them, then one direct CompactIncremental).                   *)
(***************************************************************************)
Mixed == [phase |-> "mixed", deleted |-> {}]

HistAdd(k, v) ==
    /\ live' = live \cup {k}
    /\ scenario' = IF scenario.phase = "adding" /\ k \notin DOMAIN tree /\ v # Nil
                   THEN scenario
                   ELSE Mixed

HistDelete(k) ==
    /\ live' = live \ {k}
    /\ scenario' = IF /\ scenario.phase \in {"adding", "deleting"}
                      /\ k \in DOMAIN tree
                      /\ DOMAIN tree # {k}
                   THEN [phase |-> "deleting", deleted |-> scenario.deleted \cup {k}]
                   ELSE Mixed

HistCompact ==
    /\ live' = live
    /\ scenario' = IF scenario.phase = "deleting"
                   THEN [scenario EXCEPT !.phase = "compacted"]
                   ELSE Mixed

\* The history runs use one more key and one more slot than StoreSpec: the
\* shortest add*, delete*, compact run that leaves two live keys needs three.
HistKeys == {MkKey(i) : i \in 1..(NumKeys + 1)}

HistNext ==
    \/ \E k \in HistKeys, v \in Values :
          Room(MaxSlots + 1, k) /\ Add(k, v) /\ HistAdd(k, v)
          /\ UNCHANGED <<ttlVars, lockVars>>
    \/ \E k \in HistKeys : Get(k) /\ UNCHANGED <<histVars, ttlVars, lockVars>>
    \/ LenOp /\ UNCHANGED <<histVars, ttlVars, lockVars>>
    \/ \E k \in HistKeys : Delete(k) /\ HistDelete(k) /\ UNCHANGED <<ttlVars, lockVars>>
    \/ CompactIncremental /\ HistCompact /\ UNCHANGED <<ttlVars, lockVars>>
    \/ BackgroundCompact /\ live' = live /\ scenario' = Mixed
          /\ UNCHANGED <<ttlVars, lockVars>>

HistInit ==
    /\ target = "btree"
    /\ tree = EmptyMap
    /\ storage = <<>>
    /\ tombstones = 0
    /\ threshold \in Thresholds
    /\ batchSize \in BatchSizes
    /\ pending = 0
    /\ slotKey = <<>>
    /\ sset = EmptyMap
    /\ sstorage = <<>>
    /\ live = {}
    /\ scenario = [phase |-> "adding", deleted |-> {}]
    /\ last = NoOp
    /\ ttlTree = EmptyMap
    /\ timestampUnixSeconds = [o \in {} |-> 0]
    /\ purge = NoPurge
    /\ mu = Unlocked
    /\ procs = [p \in Procs |-> NotRunning]
    /\ maxRetries = 1
    /\ txn = NoTxn

HistSpec == HistInit /\ [][HistNext]_vars

\* the step of HistNext in which a goroutine that Delete started runs
HistBackground ==
    /\ BackgroundCompact /\ live' = live /\ scenario' = Mixed
    /\ UNCHANGED <<ttlVars, lockVars>>

\* Fairness: a goroutine that `go s.CompactIncremental()` started is
\* scheduled, and gets the lock, in the end.
HistFairSpec == HistInit /\ [][HistNext]_vars /\ WF_vars(HistBackground)

(***************************************************************************)
(* BTreeIndexedStorage and the memory of its values.  A []byte is a view   *)
(* of an array; Add puts the caller's slice into a slot as it is and Get   *)
(* returns s.storage[pos] as it is, so the slice a Get returned is a view  *)
(* of the array the slot holds: [slot, bytes], slot = -1 for memory that   *)
(* no slot holds.                                                          *)
(***************************************************************************)
\* return s.storage[item.(*entry).pos], true
GetSlice(t, st, k) ==
    IF k \notin DOMAIN t THEN [slot |-> -1, bytes |-> Nil]
    ELSE [slot |-> t[k], bytes |-> Slot(st, t[k])]

\* what copy(v, "xxx") leaves in the array of v
Overwritten == "xxx"

\* The caller of the last Get writes into the slice it was given, before
\* any other call: the bytes of the array change, for every view of it.
WriteReturned ==
    LET v == GetSlice(tree, storage, last.key)
    IN /\ target = "btree"
       /\ last.op = "Get" /\ last.found /\ last.val # Nil
       /\ storage' = IF v.slot >= 0
                     THEN [storage EXCEPT ![v.slot + 1] = Overwritten]
                     ELSE storage
       /\ last' = [op |-> "Write", key |-> last.key, val |-> Overwritten]
       /\ UNCHANGED <<target, txVars, tree, tombstones, threshold, batchSize, pending,
                      slotKey, simpleVars>>

AliasNext ==
    \/ \E k \in Keys, v \in Values :
          Room(MaxSlots, k) /\ Add(k, v) /\ UNCHANGED <<histVars, ttlVars, lockVars>>
    \/ \E k \in Keys : Get(k) /\ UNCHANGED <<histVars, ttlVars, lockVars>>
    \/ \E k \in Keys : Delete(k) /\ UNCHANGED <<histVars, ttlVars, lockVars>>
    \/ CompactIncremental /\ UNCHANGED <<histVars, ttlVars, lockVars>>
    \/ BackgroundCompact /\ UNCHANGED <<histVars, ttlVars, lockVars>>
    \/ WriteReturned /\ UNCHANGED <<histVars, ttlVars, lockVars>>

AliasInit ==
    /\ target = "btree"
    /\ tree = EmptyMap
    /\ storage = <<>>
    /\ tombstones = 0
    /\ threshold \in Thresholds
    /\ batchSize \in BatchSizes
    /\ pending = 0
    /\ slotKey = <<>>
    /\ sset = EmptyMap
    /\ sstorage = <<>>
    /\ live = {}
    /\ scenario = [phase |-> "adding", deleted |-> {}]
    /\ last = NoOp
    /\ ttlTree = EmptyMap
    /\ timestampUnixSeconds = [o \in {} |-> 0]
    /\ purge = NoPurge
    /\ mu = Unlocked
    /\ procs = [p \in Procs |-> NotRunning]
    /\ maxRetries = 1
    /\ txn = NoTxn

AliasSpec == AliasInit /\ [][AliasNext]_vars

(***************************************************************************)
(* ByteKeyBTree.  Every operation body runs under b.mu and is one step;    *)
(* PurgeExpiredAt releases the lock between its scan and its deletions and *)
(* is two steps, between which other calls can run.                        *)
(***************************************************************************)
\* a plausible slip: an object already stored for an equal key stays
ReplaceOrInsertKeepObject(t, item) ==
    [k \in DOMAIN t \cup {item.keyBytes} |->
        IF k \in DOMAIN t THEN t[k] ELSE item]

\* b.tree.ReplaceOrInsert(item): the item object takes the place of the
\* object stored for an equal key
ReplaceOrInsert(t, item) ==
    [k \in DOMAIN t \cup {item.keyBytes} |->
        IF k = item.keyBytes THEN item ELSE t[k]]

\* b.tree.Delete(item): removes the object stored for an equal key
TreeDelete(t, item) == [k \in DOMAIN t \ {item.keyBytes} |-> t[k]]

\* another call ran while a PurgeExpiredAt was between its two phases
Interleaved(p) == IF p.pc = "scanned" THEN [p EXCEPT !.clean = FALSE] ELSE p

\* a plausible slip: first writer wins, an indexed key keeps its record
UpsertAtKeepFirst(t, ts, item, at) ==
    IF item = NilItem \/ Len(item.keyBytes) = 0 \/ item.keyBytes \in DOMAIN t
    THEN [tree |-> t, ts |-> ts, isNew |-> FALSE]
    ELSE [tree |-> ReplaceOrInsert(t, item),
          ts |-> [ts EXCEPT ![item] = Unix(at)],
          isNew |-> TRUE]

\* a plausible slip: only a nil item is refused, the length of the key is
\* not looked at
UpsertAtNoKeyCheck(t, ts, item, at) ==
    IF item = NilItem
    THEN [tree |-> t, ts |-> ts, isNew |-> FALSE]
    ELSE [tree |-> ReplaceOrInsert(t, item),
          ts |-> [ts EXCEPT ![item] = Unix(at)],
          isNew |-> item.keyBytes \notin DOMAIN t]

UpsertAtResult(t, ts, item, at) ==
    IF item = NilItem \/ Len(item.keyBytes) = 0
    THEN [tree |-> t, ts |-> ts, isNew |-> FALSE]
    ELSE [tree |-> ReplaceOrInsert(t, item),
          ts |-> [ts EXCEPT ![item] = Unix(at)],
          isNew |-> item.keyBytes \notin DOMAIN t]

UpsertAt(item, at) ==
    LET r == UpsertAtResult(ttlTree, timestampUnixSeconds, item, at)
    IN /\ ttlTree' = r.tree
       /\ timestampUnixSeconds' = r.ts
       /\ purge' = Interleaved(purge)
       /\ last' = [op |-> "UpsertAt", item |-> item.id, at |-> at,
                   isNew |-> r.isNew]

TtlDeleteResult(t, item) ==
    IF item = NilItem \/ Len(item.keyBytes) = 0
    THEN [tree |-> t, deleted |-> FALSE]
    ELSE [tree |-> TreeDelete(t, item), deleted |-> item.keyBytes \in DOMAIN t]

TtlDelete(item) ==
    LET r == TtlDeleteResult(ttlTree, item)
    IN /\ ttlTree' = r.tree
       /\ purge' = Interleaved(purge)
       /\ last' = [op |-> "Delete", item |-> item.id, deleted |-> r.deleted]
       /\ UNCHANGED timestampUnixSeconds

\* a plausible slip: a probe finds only a record of its own variant
HasResultSameVariant(t, item) ==
    IF item = NilItem \/ Len(item.keyBytes) = 0 THEN FALSE
    ELSE item.keyBytes \in DOMAIN t /\ t[item.keyBytes].kind = item.kind

HasResult(t, item) ==
    IF item = NilItem \/ Len(item.keyBytes) = 0 THEN FALSE
    ELSE item.keyBytes \in DOMAIN t

Has(item) ==
    /\ last' = [op |-> "Has", item |-> item.id,
                exists |-> HasResult(ttlTree, item)]
    /\ UNCHANGED ttlVars

\* GetLastWriteUnix has no check of the key's length: the lookup of an empty
\* key just finds nothing
GetLastWriteUnixResult(t, ts, item) ==
    IF item = NilItem THEN [unix |-> 0, found |-> FALSE]
    ELSE IF item.keyBytes \in DOMAIN t
    THEN [unix |-> ts[t[item.keyBytes]], found |-> TRUE]
    ELSE [unix |-> 0, found |-> FALSE]

GetLastWriteUnix(item) ==
    LET r == GetLastWriteUnixResult(ttlTree, timestampUnixSeconds, item)
    IN /\ last' = [op |-> "GetLastWriteUnix", item |-> item.id,
                   unix |-> r.unix, found |-> r.found]
       /\ UNCHANGED ttlVars

\* a plausible slip: GetNodeItem hands out a copy of the stored object
GetNodeItemResultCopy(t, item) ==
    IF item = NilItem \/ Len(item.keyBytes) = 0
    THEN [res |-> NilItem, found |-> FALSE]
    ELSE IF item.keyBytes \in DOMAIN t
    THEN [res |-> [t[item.keyBytes] EXCEPT !.id = 10 + @], found |-> TRUE]
    ELSE [res |-> NilItem, found |-> FALSE]

\* GetNodeItem returns the object stored for the key of the probe
GetNodeItemResult(t, item) ==
    IF item = NilItem \/ Len(item.keyBytes) = 0
    THEN [res |-> NilItem, found |-> FALSE]
    ELSE IF item.keyBytes \in DOMAIN t
    THEN [res |-> t[item.keyBytes], found |-> TRUE]
    ELSE [res |-> NilItem, found |-> FALSE]

GetNodeItem(item) ==
    LET r == GetNodeItemResult(ttlTree, item)
    IN /\ last' = [op |-> "GetNodeItem", item |-> item.id,
                   res |-> r.res.id, found |-> r.found]
       /\ UNCHANGED ttlVars

SizeResult(t) == Cardinality(DOMAIN t)

Size ==
    /\ last' = [op |-> "Size", n |-> SizeResult(ttlTree)]
    /\ UNCHANGED ttlVars

\* a plausible slip: an exclusive boundary
ExpiredStrict(expiration, cutoffUnix) == expiration < cutoffUnix

\* it.GetExpirationTime() <= cutoffUnix
Expired(expiration, cutoffUnix) == expiration <= cutoffUnix

\* a plausible slip: the scan stops one record too late
RECURSIVE PurgeAscendLate(_, _, _, _, _, _)
PurgeAscendLate(ks, t, ts, cutoffUnix, maxToDelete, itemsToDelete) ==
    IF ks = <<>> THEN itemsToDelete
    ELSE LET it == t[Head(ks)]
         IN IF Expired(ts[it], cutoffUnix)
            THEN LET items == Append(itemsToDelete, it)
                 IN IF maxToDelete > 0 /\ Len(items) > maxToDelete
                    THEN items
                    ELSE PurgeAscendLate(Tail(ks), t, ts, cutoffUnix,
                                         maxToDelete, items)
            ELSE PurgeAscendLate(Tail(ks), t, ts, cutoffUnix,
                                 maxToDelete, itemsToDelete)

\* The scan of PurgeExpiredAt: b.tree.Ascend with its callback, ks being the
\* keys still to visit in ascending order.
RECURSIVE PurgeAscend(_, _, _, _, _, _)
PurgeAscend(ks, t, ts, cutoffUnix, maxToDelete, itemsToDelete) ==
    IF ks = <<>> THEN itemsToDelete
    ELSE LET it == t[Head(ks)]
         IN IF Expired(ts[it], cutoffUnix)
            THEN LET items == Append(itemsToDelete, it)
                 IN IF maxToDelete > 0 /\ Len(items) >= maxToDelete
                    THEN items
                    ELSE PurgeAscend(Tail(ks), t, ts, cutoffUnix,
                                     maxToDelete, items)
            ELSE PurgeAscend(Tail(ks), t, ts, cutoffUnix,
                             maxToDelete, itemsToDelete)

\* a plausible variation: a collected item is deleted only while the index
\* still holds that very object for its key
RECURSIVE PurgeDeleteItemsSameObject(_, _, _)
PurgeDeleteItemsSameObject(t, items, deleted) ==
    IF items = <<>> THEN [tree |-> t, deleted |-> deleted]
    ELSE IF Head(items).keyBytes \in DOMAIN t /\ t[Head(items).keyBytes] = Head(items)
    THEN PurgeDeleteItemsSameObject(TreeDelete(t, Head(items)), Tail(items),
                                    deleted + 1)
    ELSE PurgeDeleteItemsSameObject(t, Tail(items), deleted)

\* The deletions of PurgeExpiredAt: b.tree.Delete(item) for each collected
\* item, counting the calls that removed something.
RECURSIVE PurgeDeleteItems(_, _, _)
PurgeDeleteItems(t, items, deleted) ==
    IF items = <<>> THEN [tree |-> t, deleted |-> deleted]
    ELSE IF Head(items).keyBytes \in DOMAIN t
    THEN PurgeDeleteItems(TreeDelete(t, Head(items)), Tail(items), deleted + 1)
    ELSE PurgeDeleteItems(t, Tail(items), deleted)

PurgeReturn(p, deleted) ==
    [op |-> "PurgeExpiredAt", now |-> p.now, ttl |-> p.ttl,
     maxToDelete |-> p.maxToDelete, deleted |-> deleted, clean |-> p.clean]

\* a plausible slip: only a negative ttl is refused, a zero ttl is scanned
PurgeExpiredAtZeroTtl(now, ttl, maxToDelete) ==
    /\ purge.pc = "idle"
    /\ LET call == [now |-> now, ttl |-> ttl, maxToDelete |-> maxToDelete,
                    clean |-> TRUE]
           cutoffUnix == Unix(TimeAdd(now, -ttl))
       IN IF ttl < 0
          THEN /\ last' = PurgeReturn(call, 0)
               /\ UNCHANGED ttlVars
          ELSE /\ purge' = [pc |-> "scanned", now |-> now, ttl |-> ttl,
                            maxToDelete |-> maxToDelete, clean |-> TRUE,
                            itemsToDelete |->
                                PurgeAscend(Ascend(DOMAIN ttlTree), ttlTree,
                                            timestampUnixSeconds, cutoffUnix,
                                            maxToDelete, <<>>)]
               /\ last' = [op |-> "PurgeScan"]
               /\ UNCHANGED <<ttlTree, timestampUnixSeconds>>

\* PurgeExpiredAt up to b.mu.RUnlock(): the ttl check and the scan
PurgeExpiredAt(now, ttl, maxToDelete) ==
    /\ purge.pc = "idle"
    /\ LET call == [now |-> now, ttl |-> ttl, maxToDelete |-> maxToDelete,
                    clean |-> TRUE]
           cutoffUnix == Unix(TimeAdd(now, -ttl))
       IN IF ttl <= 0
          THEN /\ last' = PurgeReturn(call, 0)
               /\ UNCHANGED ttlVars
          ELSE /\ purge' = [pc |-> "scanned", now |-> now, ttl |-> ttl,
                            maxToDelete |-> maxToDelete, clean |-> TRUE,
                            itemsToDelete |->
                                PurgeAscend(Ascend(DOMAIN ttlTree), ttlTree,
                                            timestampUnixSeconds, cutoffUnix,
                                            maxToDelete, <<>>)]
               /\ last' = [op |-> "PurgeScan"]
               /\ UNCHANGED <<ttlTree, timestampUnixSeconds>>

\* a plausible variation: an optimistic purge that deletes only if no other
\* call ran since its scan, and gives up otherwise
PurgeDeleteIfUntouched ==
    /\ purge.pc = "scanned"
    /\ LET r == PurgeDeleteItems(ttlTree, purge.itemsToDelete, 0)
       IN IF Len(purge.itemsToDelete) = 0 \/ ~purge.clean
          THEN /\ last' = PurgeReturn(purge, 0)
               /\ UNCHANGED ttlTree
          ELSE /\ last' = PurgeReturn(purge, r.deleted)
               /\ ttlTree' = r.tree
    /\ purge' = NoPurge
    /\ UNCHANGED timestampUnixSeconds

\* PurgeExpiredAt from b.mu.RUnlock() on: return 0 if nothing was collected,
\* else the deletions under the write lock
PurgeDelete ==
    /\ purge.pc = "scanned"
    /\ LET r == PurgeDeleteItems(ttlTree, purge.itemsToDelete, 0)
       IN IF Len(purge.itemsToDelete) = 0
          THEN /\ last' = PurgeReturn(purge, 0)
               /\ UNCHANGED ttlTree
          ELSE /\ last' = PurgeReturn(purge, r.deleted)
               /\ ttlTree' = r.tree
    /\ purge' = NoPurge
    /\ UNCHANGED timestampUnixSeconds

nonTtlVars == <<target, txVars, storeVars, simpleVars, histVars, lockVars>>

\* what a caller can pass as an Item: an object of the run or nil
ItemArgs == DOMAIN timestampUnixSeconds \cup {NilItem}

TTLNext ==
    \/ \E item \in ItemArgs, at \in Times :
          UpsertAt(item, at) /\ UNCHANGED nonTtlVars
    \/ \E item \in ItemArgs : TtlDelete(item) /\ UNCHANGED nonTtlVars
    \/ \E now \in Times, ttl \in Durations, maxToDelete \in Limits :
          PurgeExpiredAt(now, ttl, maxToDelete) /\ UNCHANGED nonTtlVars
    \/ PurgeDelete /\ UNCHANGED nonTtlVars

TTLInit ==
    /\ target = "ttl"
    /\ tree = EmptyMap
    /\ storage = <<>>
    /\ tombstones = 0
    /\ threshold = <<1, 2>>
    /\ batchSize = 0
    /\ pending = 0
    /\ slotKey = <<>>
    /\ sset = EmptyMap
    /\ sstorage = <<>>
    /\ live = {}
    /\ scenario = [phase |-> "adding", deleted |-> {}]
    /\ last = NoOp
    /\ ttlTree = EmptyMap
    /\ timestampUnixSeconds \in {[o \in pool |-> 0] : pool \in ItemPools}
    /\ purge = NoPurge
    /\ mu = Unlocked
    /\ procs = [p \in Procs |-> NotRunning]
    /\ maxRetries = 1
    /\ txn = NoTxn

TTLSpec == TTLInit /\ [][TTLNext]_vars

(***************************************************************************)
(* ByteKeyBTree driven by one caller: every call returns before the next   *)
(* one starts, so nothing runs between the two phases of PurgeExpiredAt.   *)
(***************************************************************************)
\* a plausible slip: an exclusive boundary in the scan of ListExpiredAt
RECURSIVE ListAscendStrict(_, _, _, _, _, _)
ListAscendStrict(ks, t, ts, cutoff, maxCount, out) ==
    IF ks = <<>> THEN out
    ELSE LET it == t[Head(ks)]
         IN IF ts[it] < cutoff
            THEN LET out2 == Append(out, it)
                 IN IF maxCount > 0 /\ Len(out2) >= maxCount
                    THEN out2
                    ELSE ListAscendStrict(Tail(ks), t, ts, cutoff, maxCount, out2)
            ELSE ListAscendStrict(Tail(ks), t, ts, cutoff, maxCount, out)

\* The scan of ListExpiredAt: b.tree.Ascend with its callback, ks being the
\* keys still to visit in ascending order.
RECURSIVE ListAscend(_, _, _, _, _, _)
ListAscend(ks, t, ts, cutoff, maxCount, out) ==
    IF ks = <<>> THEN out
    ELSE LET it == t[Head(ks)]
         IN IF ts[it] <= cutoff
            THEN LET out2 == Append(out, it)
                 IN IF maxCount > 0 /\ Len(out2) >= maxCount
                    THEN out2
                    ELSE ListAscend(Tail(ks), t, ts, cutoff, maxCount, out2)
            ELSE ListAscend(Tail(ks), t, ts, cutoff, maxCount, out)

\* ListExpiredAt returns nil when ttl <= 0, else the slice it collected
ListExpiredAtResult(t, ts, now, ttl, maxCount) ==
    IF ttl <= 0
    THEN [isNil |-> TRUE, out |-> <<>>]
    ELSE [isNil |-> FALSE,
          out |-> ListAscend(Ascend(DOMAIN t), t, ts,
                             Unix(TimeAdd(now, -ttl)), maxCount, <<>>)]

ListExpiredAt(now, ttl, maxCount) ==
    LET r == ListExpiredAtResult(ttlTree, timestampUnixSeconds, now, ttl,
                                 maxCount)
    IN /\ last' = [op |-> "ListExpiredAt", now |-> now, ttl |-> ttl,
                   maxCount |-> maxCount, isNil |-> r.isNil, out |-> r.out]
       /\ UNCHANGED ttlVars

\* a plausible slip: every item written counts as a new key
RECURSIVE UpsertManyAtCountAll(_, _, _, _, _)
UpsertManyAtCountAll(t, ts, items, at, added) ==
    IF items = <<>>
    THEN [tree |-> t, ts |-> ts, added |-> added, panic |-> FALSE]
    ELSE LET item == Head(items)
         IN IF item = NilItem
            THEN [tree |-> t, ts |-> ts, added |-> added, panic |-> TRUE]
            ELSE IF Len(item.keyBytes) = 0
            THEN UpsertManyAtCountAll(t, ts, Tail(items), at, added)
            ELSE UpsertManyAtCountAll(
                    ReplaceOrInsert(t, item),
                    [ts EXCEPT ![item] = Unix(at)],
                    Tail(items), at, added + 1)

\* The loop of UpsertManyAt under b.mu.Lock().  item.Key() on a nil Item is
\* a nil dereference: the call panics in the middle of the loop, with the
\* items before the nil one written.
RECURSIVE UpsertManyAtResult(_, _, _, _, _)
UpsertManyAtResult(t, ts, items, at, added) ==
    IF items = <<>>
    THEN [tree |-> t, ts |-> ts, added |-> added, panic |-> FALSE]
    ELSE LET item == Head(items)
         IN IF item = NilItem
            THEN [tree |-> t, ts |-> ts, added |-> added, panic |-> TRUE]
            ELSE IF Len(item.keyBytes) = 0
            THEN UpsertManyAtResult(t, ts, Tail(items), at, added)
            ELSE UpsertManyAtResult(
                    ReplaceOrInsert(t, item),
                    [ts EXCEPT ![item] = Unix(at)],
                    Tail(items), at,
                    IF item.keyBytes \in DOMAIN t THEN added ELSE added + 1)

\* the ids of a batch of items
Ids(items) == [i \in 1..Len(items) |-> items[i].id]

\* A panic is not recovered and b.mu.Unlock() is not deferred: the caller
\* is gone and the lock stays held, no call of the index proceeds any more.
UpsertManyAt(items, at) ==
    LET r == UpsertManyAtResult(ttlTree, timestampUnixSeconds, items, at, 0)
    IN /\ ttlTree' = r.tree
       /\ timestampUnixSeconds' = r.ts
       /\ purge' = Interleaved(purge)
       /\ last' = IF r.panic
                  THEN [op |-> "panic", in |-> "UpsertManyAt",
                        items |-> Ids(items)]
                  ELSE [op |-> "UpsertManyAt", items |-> Ids(items),
                        at |-> at, added |-> r.added]

\* a plausible slip: every item with a key counts as a deletion
RECURSIVE DeleteManyCountAll(_, _, _)
DeleteManyCountAll(t, items, deleted) ==
    IF items = <<>> THEN [tree |-> t, deleted |-> deleted, panic |-> FALSE]
    ELSE LET item == Head(items)
         IN IF item = NilItem
            THEN [tree |-> t, deleted |-> deleted, panic |-> TRUE]
            ELSE IF Len(item.keyBytes) = 0
            THEN DeleteManyCountAll(t, Tail(items), deleted)
            ELSE DeleteManyCountAll(TreeDelete(t, item), Tail(items),
                                    deleted + 1)

\* The loop of DeleteMany under b.mu.Lock(); item.Key() on a nil Item
\* panics as in UpsertManyAt.
RECURSIVE DeleteManyResult(_, _, _)
DeleteManyResult(t, items, deleted) ==
    IF items = <<>> THEN [tree |-> t, deleted |-> deleted, panic |-> FALSE]
    ELSE LET item == Head(items)
         IN IF item = NilItem
            THEN [tree |-> t, deleted |-> deleted, panic |-> TRUE]
            ELSE IF Len(item.keyBytes) = 0
            THEN DeleteManyResult(t, Tail(items), deleted)
            ELSE DeleteManyResult(
                    TreeDelete(t, item), Tail(items),
                    IF item.keyBytes \in DOMAIN t THEN deleted + 1
                    ELSE deleted)

DeleteMany(items) ==
    LET r == DeleteManyResult(ttlTree, items, 0)
    IN /\ ttlTree' = r.tree
       /\ purge' = Interleaved(purge)
       /\ last' = IF r.panic
                  THEN [op |-> "panic", in |-> "DeleteMany",
                        items |-> Ids(items)]
                  ELSE [op |-> "DeleteMany", items |-> Ids(items),
                        deleted |-> r.deleted]
       /\ UNCHANGED timestampUnixSeconds

(***************************************************************************)
(* ForEach.  A []byte is a view of an array: [array, bytes], where array   *)
(* names the memory written through it.  The key of an item object lives   *)
(* in the array of that object; array 0 is nil, array -1 memory allocated  *)
(* by the call.                                                            *)
(***************************************************************************)
\* it.Key()
Key(item) == [array |-> item.id, bytes |-> item.keyBytes]

\* a plausible slip: the slice itself is handed on
cloneBytesAlias(src) == src

\* cloneBytes: nil for an empty slice, else a fresh array with the bytes
cloneBytes(src) ==
    IF Len(src.bytes) = 0 THEN [array |-> 0, bytes |-> <<>>]
    ELSE [array |-> -1, bytes |-> src.bytes]

\* A callback is nil, or returns false on its stopAt-th invocation (never
\* when stopAt = 0) and, when it scribbles, overwrites the first byte of
\* the key slice it receives.
Callbacks ==
    {[isNil |-> TRUE, stopAt |-> 0, scribble |-> FALSE]}
    \cup {[isNil |-> FALSE, stopAt |-> n, scribble |-> w] :
             n \in {0, 1, 2, 3}, w \in BOOLEAN}

\* key[0] = 9 in the callback: a write into an array that holds the key of
\* a stored object changes the key the index has for that object
CallbackWrite(t, key) ==
    IF Len(key.bytes) > 0 /\ key.bytes \in DOMAIN t
       /\ t[key.bytes].id = key.array
    THEN LET written == [key.bytes EXCEPT ![1] = 9]
         IN [k \in (DOMAIN t \ {key.bytes}) \cup {written} |->
                IF k = written THEN t[key.bytes] ELSE t[k]]
    ELSE t

\* a plausible slip: the traversal goes on whatever the callback returns
RECURSIVE ForEachAscendNoStop(_, _, _, _, _, _)
ForEachAscendNoStop(ks, t0, t, ts, callback, visited) ==
    IF ks = <<>> THEN [tree |-> t, visited |-> visited]
    ELSE LET it == t0[Head(ks)]
             keyCopy == cloneBytes(Key(it))
             seen == Append(visited, [key |-> keyCopy.bytes, unix |-> ts[it]])
             t2 == IF callback.scribble THEN CallbackWrite(t, keyCopy) ELSE t
         IN ForEachAscendNoStop(Tail(ks), t0, t2, ts, callback, seen)

\* b.tree.Ascend with the closure of ForEach: ks are the keys still to
\* visit, t0 the index as the traversal found it, t the index as the
\* callback's writes have left it, visited what the callback was given.
RECURSIVE ForEachAscend(_, _, _, _, _, _)
ForEachAscend(ks, t0, t, ts, callback, visited) ==
    IF ks = <<>> THEN [tree |-> t, visited |-> visited]
    ELSE LET it == t0[Head(ks)]
             keyCopy == cloneBytes(Key(it))
             seen == Append(visited, [key |-> keyCopy.bytes, unix |-> ts[it]])
             t2 == IF callback.scribble THEN CallbackWrite(t, keyCopy) ELSE t
             keepGoing == callback.stopAt # Len(seen)
         IN IF keepGoing
            THEN ForEachAscend(Tail(ks), t0, t2, ts, callback, seen)
            ELSE [tree |-> t2, visited |-> seen]

\* a plausible slip: a traversal that the callback stopped reports an error
ForEachResultErrorOnStop(t, ts, callback) ==
    IF callback.isNil
    THEN [tree |-> t, visited |-> <<>>, err |-> TRUE]
    ELSE LET r == ForEachAscend(Ascend(DOMAIN t), t, t, ts, callback, <<>>)
         IN [tree |-> r.tree, visited |-> r.visited,
             err |-> callback.stopAt \in 1..Len(r.visited)]

\* ForEach: the nil check of the callback, then the traversal; the error is
\* nil after every traversal
ForEachResult(t, ts, callback) ==
    IF callback.isNil
    THEN [tree |-> t, visited |-> <<>>, err |-> TRUE]
    ELSE LET r == ForEachAscend(Ascend(DOMAIN t), t, t, ts, callback, <<>>)
         IN [tree |-> r.tree, visited |-> r.visited, err |-> FALSE]

ForEach(callback) ==
    LET r == ForEachResult(ttlTree, timestampUnixSeconds, callback)
    IN /\ ttlTree' = r.tree
       /\ last' = [op |-> "ForEach", callback |-> callback,
                   visited |-> r.visited, err |-> r.err]
       /\ UNCHANGED <<timestampUnixSeconds, purge>>

\* the batches a caller passes: up to two items, nil among them
Batches ==
    {<<>>} \cup {<<a>> : a \in ItemArgs}
           \cup {<<a, b>> : a \in ItemArgs, b \in ItemArgs}

\* The handles the last call returned to the caller.
Handles ==
    IF last.op = "GetNodeItem" /\ last.found
    THEN {o \in DOMAIN timestampUnixSeconds : o.id = last.res}
    ELSE IF last.op = "ListExpiredAt"
    THEN {last.out[i] : i \in 1..Len(last.out)}
    ELSE {}

\* The caller calls item.SetExpirationTime(expiration) on an object it
\* holds, outside of any call of the index.
SetExpirationTime(item, expiration) ==
    /\ timestampUnixSeconds' =
          [timestampUnixSeconds EXCEPT ![item] = Unix(expiration)]
    /\ last' = [op |-> "SetExpirationTime", item |-> item.id,
                at |-> expiration]
    /\ UNCHANGED <<ttlTree, purge>>

\* no call is in progress and the lock is not stuck
Idle == purge.pc = "idle" /\ last.op # "panic"

TTLSerialNext ==
    \/ \E item \in ItemArgs, at \in Times :
          Idle /\ UpsertAt(item, at) /\ UNCHANGED nonTtlVars
    \/ \E item \in ItemArgs : Idle /\ TtlDelete(item) /\ UNCHANGED nonTtlVars
    \/ \E item \in ItemArgs : Idle /\ Has(item) /\ UNCHANGED nonTtlVars
    \/ \E item \in ItemArgs :
          Idle /\ GetLastWriteUnix(item) /\ UNCHANGED nonTtlVars
    \/ \E item \in ItemArgs : Idle /\ GetNodeItem(item) /\ UNCHANGED nonTtlVars
    \/ \E item \in Handles, expiration \in Times :
          Idle /\ SetExpirationTime(item, expiration) /\ UNCHANGED nonTtlVars
    \/ Idle /\ Size /\ UNCHANGED nonTtlVars
    \/ \E now \in Times, ttl \in Durations, maxCount \in Limits :
          Idle /\ ListExpiredAt(now, ttl, maxCount) /\ UNCHANGED nonTtlVars
    \/ \E now \in Times, ttl \in Durations, maxToDelete \in Limits :
          Idle /\ PurgeExpiredAt(now, ttl, maxToDelete)
          /\ UNCHANGED nonTtlVars
    \/ PurgeDelete /\ UNCHANGED nonTtlVars

TTLSerialInit ==
    /\ target = "ttl"
    /\ tree = EmptyMap
    /\ storage = <<>>
    /\ tombstones = 0
    /\ threshold = <<1, 2>>
    /\ batchSize = 0
    /\ pending = 0
    /\ slotKey = <<>>
    /\ sset = EmptyMap
    /\ sstorage = <<>>
    /\ live = {}
    /\ scenario = [phase |-> "adding", deleted |-> {}]
    /\ last = NoOp
    /\ ttlTree = EmptyMap
    /\ timestampUnixSeconds \in {[o \in pool |-> 0] : pool \in ItemPools}
    /\ purge = NoPurge
    /\ mu = Unlocked
    /\ procs = [p \in Procs |-> NotRunning]
    /\ maxRetries = 1
    /\ txn = NoTxn

TTLSerialSpec == TTLSerialInit /\ [][TTLSerialNext]_vars

(***************************************************************************)
(* ByteKeyBTree driven by one caller that uses the batch operations and    *)
(* the traversal next to the single-key ones.                              *)
(***************************************************************************)
TTLBatchNext ==
    \/ \E item \in ItemArgs, at \in Times :
          Idle /\ UpsertAt(item, at) /\ UNCHANGED nonTtlVars
    \/ \E items \in Batches, at \in Times :
          Idle /\ UpsertManyAt(items, at) /\ UNCHANGED nonTtlVars
    \/ \E item \in ItemArgs : Idle /\ TtlDelete(item) /\ UNCHANGED nonTtlVars
    \/ \E items \in Batches : Idle /\ DeleteMany(items) /\ UNCHANGED nonTtlVars
    \/ \E callback \in Callbacks :
          Idle /\ ForEach(callback) /\ UNCHANGED nonTtlVars
    \/ \E item \in ItemArgs : Idle /\ Has(item) /\ UNCHANGED nonTtlVars
    \/ Idle /\ Size /\ UNCHANGED nonTtlVars

TTLBatchInit ==
    /\ target = "ttl"
    /\ tree = EmptyMap
    /\ storage = <<>>
    /\ tombstones = 0
    /\ threshold = <<1, 2>>
    /\ batchSize = 0
    /\ pending = 0
    /\ slotKey = <<>>
    /\ sset = EmptyMap
    /\ sstorage = <<>>
    /\ live = {}
    /\ scenario = [phase |-> "adding", deleted |-> {}]
    /\ last = NoOp
    /\ ttlTree = EmptyMap
    /\ timestampUnixSeconds \in {[o \in pool |-> 0] : pool \in ItemPools}
    /\ purge = NoPurge
    /\ mu = Unlocked
    /\ procs = [p \in Procs |-> NotRunning]
    /\ maxRetries = 1
    /\ txn = NoTxn

TTLBatchSpec == TTLBatchInit /\ [][TTLBatchNext]_vars

(***************************************************************************)
(* ByteKeyBTree driven by one caller that uses every operation that takes  *)
(* a key: the single-item ones and the batches, with items that have a     *)
(* key, items whose key is empty, and the nil item.                        *)
(***************************************************************************)
TTLKeyedNext ==
    \/ \E item \in ItemArgs, at \in {0, MaxTick} :
          Idle /\ UpsertAt(item, at) /\ UNCHANGED nonTtlVars
    \/ \E items \in Batches :
          Idle /\ UpsertManyAt(items, MaxTick) /\ UNCHANGED nonTtlVars
    \/ \E item \in ItemArgs : Idle /\ TtlDelete(item) /\ UNCHANGED nonTtlVars
    \/ \E items \in Batches : Idle /\ DeleteMany(items) /\ UNCHANGED nonTtlVars
    \/ \E item \in ItemArgs : Idle /\ Has(item) /\ UNCHANGED nonTtlVars
    \/ \E item \in ItemArgs : Idle /\ GetNodeItem(item) /\ UNCHANGED nonTtlVars
    \/ \E item \in ItemArgs :
          Idle /\ GetLastWriteUnix(item) /\ UNCHANGED nonTtlVars

TTLKeyedInit ==
    /\ target = "ttl"
    /\ tree = EmptyMap
    /\ storage = <<>>
    /\ tombstones = 0
    /\ threshold = <<1, 2>>
    /\ batchSize = 0
    /\ pending = 0
    /\ slotKey = <<>>
    /\ sset = EmptyMap
    /\ sstorage = <<>>
    /\ live = {}
    /\ scenario = [phase |-> "adding", deleted |-> {}]
    /\ last = NoOp
    /\ ttlTree = EmptyMap
    /\ timestampUnixSeconds \in {[o \in pool |-> 0] : pool \in ItemPools}
    /\ purge = NoPurge
    /\ mu = Unlocked
    /\ procs = [p \in Procs |-> NotRunning]
    /\ maxRetries = 1
    /\ txn = NoTxn

TTLKeyedSpec == TTLKeyedInit /\ [][TTLKeyedNext]_vars

(***************************************************************************)
(* The stores with their locks.  A goroutine is in at most one call; a     *)
(* call is a record of the method and its arguments and runs in steps: the *)
(* code before the lock (with the call), the acquisition of s.mu / b.mu,   *)
(* and the code under the lock with the release that ends it.  Calls whose *)
(* arguments make the method return before it takes the lock are not       *)
(* offered here.                                                           *)
(***************************************************************************)
\* sync.RWMutex.  Lock first becomes the one writer of the mutex, which
\* holds off every later RLock, and then waits until the readers that are
\* inside have left; RLock waits until the mutex has no writer; Unlock and
\* RUnlock give up what the goroutine holds.
CanLock(m) == m.w = 0
Drained(m) == m.r = {}
CanRLock(m) == m.w = 0

\* a plausible slip: a read path that returns without b.mu.RUnlock()
UnlockWriterOnly(m, p) == [w |-> IF m.w = p THEN 0 ELSE m.w, r |-> m.r]

Unlock(m, p) == [w |-> IF m.w = p THEN 0 ELSE m.w, r |-> m.r \ {p}]

\* a plausible slip: Delete takes the read lock, as Get and Len do
StoreLockModeSharedDelete(c) ==
    IF c.op \in {"Add", "CompactIncremental"} THEN "Lock" ELSE "RLock"

\* s.mu.Lock() or s.mu.RLock(), by method of BTreeIndexedStorage
StoreLockMode(c) ==
    IF c.op \in {"Add", "Delete", "CompactIncremental"} THEN "Lock" ELSE "RLock"

\* a plausible slip: PurgeExpiredAt deletes under the read lock of its scan
TtlLockModeSharedPurge(c) ==
    IF c.op \in {"UpsertAt", "UpsertManyAt", "Delete", "DeleteMany", "Reset"}
    THEN "Lock" ELSE "RLock"

\* b.mu.Lock() or b.mu.RLock(), by method of ByteKeyBTree; PurgeExpiredAt
\* takes the read lock for its scan and the write lock for its deletions
TtlLockMode(c) ==
    IF \/ c.op \in {"UpsertAt", "UpsertManyAt", "Delete", "DeleteMany", "Reset"}
       \/ c.op = "PurgeExpiredAt" /\ c.pc = "lock2"
    THEN "Lock" ELSE "RLock"

LockMode(c) == IF target = "btree" THEN StoreLockMode(c) ELSE TtlLockMode(c)

\* goroutine p starts the call c
Call(p, c) ==
    /\ procs[p] = NotRunning
    /\ procs' = [procs EXCEPT ![p] = c]
    /\ UNCHANGED <<target, txVars, storeVars, simpleVars, histVars, ttlVars, last, mu>>

\* Goroutine p gets the lock its call asks for: a reader is inside at once,
\* a writer has the mutex to itself and then waits for the readers to leave.
Acquire(p) ==
    /\ procs[p].pc \in {"lock", "lock2"}
    /\ procs[p].pc = "lock2" => Len(purge.itemsToDelete) > 0
    /\ IF LockMode(procs[p]) = "Lock"
       THEN /\ CanLock(mu)
            /\ mu' = [mu EXCEPT !.w = p]
            /\ procs' = [procs EXCEPT
                           ![p].pc = IF @ = "lock" THEN "wait" ELSE "wait2"]
       ELSE /\ CanRLock(mu)
            /\ mu' = [mu EXCEPT !.r = @ \cup {p}]
            /\ procs' = [procs EXCEPT ![p].pc = IF @ = "lock" THEN "in" ELSE "in2"]
    /\ UNCHANGED <<target, txVars, storeVars, simpleVars, histVars, ttlVars, last>>

\* no reader is left inside: the writer p that waited is inside
Enter(p) ==
    /\ procs[p].pc \in {"wait", "wait2"}
    /\ Drained(mu)
    /\ procs' = [procs EXCEPT ![p].pc = IF @ = "wait" THEN "in" ELSE "in2"]
    /\ UNCHANGED <<target, txVars, storeVars, simpleVars, histVars, ttlVars, last, mu>>

\* goroutine p holds the lock of its call of method op
Holding(p, op) == procs[p].op = op /\ procs[p].pc = "in"

\* the deferred or final Unlock / RUnlock, and the return
Return(p) ==
    /\ mu' = Unlock(mu, p)
    /\ procs' = [procs EXCEPT ![p] = NotRunning]

(***************************************************************************)
(* BTreeIndexedStorage under s.mu.                                         *)
(***************************************************************************)
\* calls of Add and Delete that are in flight
InFlight(op) == Cardinality({p \in Procs : procs[p].op = op})

\* The calls offered; the caps on len(storage) and on launched compactions
\* count the calls in flight.
StoreCalls ==
    {[op |-> "Add", pc |-> "lock", key |-> k, val |-> "foo"] :
        k \in {x \in Keys : Room(MaxSlots - InFlight("Add"), x)}}
    \cup {[op |-> "Get", pc |-> "lock", key |-> k] : k \in Keys}
    \cup {[op |-> "Len", pc |-> "lock"]}
    \cup {[op |-> "Delete", pc |-> "lock", key |-> k, counted |-> 0] :
             k \in {x \in Keys : pending + InFlight("Delete") < MaxPending}}
    \cup {[op |-> "CompactIncremental", pc |-> "lock", bg |-> FALSE]}

LockedAdd(p) ==
    Holding(p, "Add") /\ Add(procs[p].key, procs[p].val) /\ Return(p)

LockedGet(p) == Holding(p, "Get") /\ Get(procs[p].key) /\ Return(p)

LockedLen(p) == Holding(p, "Len") /\ LenOp /\ Return(p)

\* Delete from s.tree.Delete to atomic.AddInt64; a key that is not indexed
\* ends the call
LockedDelete(p) ==
    LET c == procs[p]
        r == DeleteResult(tree, storage, tombstones, threshold, c.key)
    IN /\ Holding(p, "Delete")
       /\ target = "btree"
       /\ tree' = r.tree
       /\ storage' = r.storage
       /\ tombstones' = r.tombstones
       /\ IF c.key \in DOMAIN tree
          THEN /\ procs' = [procs EXCEPT ![p].pc = "check",
                                         ![p].counted = r.tombstones]
               /\ UNCHANGED <<mu, last>>
          ELSE /\ Return(p)
               /\ last' = [op |-> "Delete", key |-> c.key, found |-> FALSE,
                           launched |-> FALSE]
       /\ UNCHANGED <<target, txVars, threshold, batchSize, pending, slotKey, simpleVars>>

\* Delete from the threshold check on: it reads s.tombstones and
\* len(s.storage) and may start the goroutine
LockedDeleteCheck(p) ==
    LET c == procs[p]
        launch == OverThreshold(tombstones, Len(storage), threshold)
    IN /\ c.op = "Delete" /\ c.pc = "check"
       /\ pending' = IF launch THEN pending + 1 ELSE pending
       /\ last' = [op |-> "Delete", key |-> c.key, found |-> TRUE,
                   launched |-> launch]
       /\ Return(p)
       /\ UNCHANGED <<target, txVars, tree, storage, tombstones, threshold, batchSize,
                      slotKey, simpleVars>>

\* a goroutine started by `go s.CompactIncremental()` begins to run
StartBackground(p) ==
    /\ pending > 0
    /\ procs[p] = NotRunning
    /\ pending' = pending - 1
    /\ procs' = [procs EXCEPT
                   ![p] = [op |-> "CompactIncremental", pc |-> "lock", bg |-> TRUE]]
    /\ UNCHANGED <<target, txVars, tree, storage, tombstones, threshold, batchSize,
                   slotKey, simpleVars, histVars, ttlVars, last, mu>>

LockedCompactIncremental(p) ==
    /\ Holding(p, "CompactIncremental")
    /\ CompactBody(procs[p].bg)
    /\ Return(p)
    /\ UNCHANGED pending

\* a plausible slip: Reset drops the smallest record only
ResetDeleteMin ==
    /\ ttlTree' = IF DOMAIN ttlTree = {} THEN ttlTree
                  ELSE LET k == Ascend(DOMAIN ttlTree)[1]
                       IN [x \in DOMAIN ttlTree \ {k} |-> ttlTree[x]]
    /\ purge' = Interleaved(purge)
    /\ last' = [op |-> "Reset"]
    /\ UNCHANGED timestampUnixSeconds

(***************************************************************************)
(* ByteKeyBTree under b.mu.                                                *)
(***************************************************************************)
\* Reset: b.tree.Clear(true)
Reset ==
    /\ ttlTree' = EmptyMap
    /\ purge' = Interleaved(purge)
    /\ last' = [op |-> "Reset"]
    /\ UNCHANGED timestampUnixSeconds

\* the items with a key
KeyedItems == {o \in DOMAIN timestampUnixSeconds : Len(o.keyBytes) > 0}

\* UpsertAt before b.mu.Lock(): the checks passed, item.SetExpirationTime(ts)
CallUpsertAt(p, item, at) ==
    /\ procs[p] = NotRunning
    /\ timestampUnixSeconds' = [timestampUnixSeconds EXCEPT ![item] = Unix(at)]
    /\ procs' = [procs EXCEPT
                   ![p] = [op |-> "UpsertAt", pc |-> "lock", item |-> item, at |-> at]]
    /\ UNCHANGED <<target, txVars, storeVars, simpleVars, histVars, ttlTree, purge,
                   last, mu>>

\* UpsertAt under the lock: b.tree.ReplaceOrInsert(item)
LockedUpsertAt(p) ==
    LET c == procs[p]
    IN /\ Holding(p, "UpsertAt")
       /\ ttlTree' = ReplaceOrInsert(ttlTree, c.item)
       /\ purge' = Interleaved(purge)
       /\ last' = [op |-> "UpsertAt", item |-> c.item.id, at |-> c.at,
                   isNew |-> c.item.keyBytes \notin DOMAIN ttlTree]
       /\ Return(p)
       /\ UNCHANGED timestampUnixSeconds

LockedUpsertManyAt(p) ==
    /\ Holding(p, "UpsertManyAt")
    /\ UpsertManyAt(procs[p].items, procs[p].at)
    /\ Return(p)

LockedTtlDelete(p) ==
    Holding(p, "Delete") /\ TtlDelete(procs[p].item) /\ Return(p)

LockedDeleteMany(p) ==
    Holding(p, "DeleteMany") /\ DeleteMany(procs[p].items) /\ Return(p)

LockedReset(p) == Holding(p, "Reset") /\ Reset /\ Return(p)

LockedHas(p) == Holding(p, "Has") /\ Has(procs[p].item) /\ Return(p)

LockedSize(p) == Holding(p, "Size") /\ Size /\ Return(p)

\* ForEach calls the callback for every record before b.mu.RUnlock()
LockedForEach(p) ==
    Holding(p, "ForEach") /\ ForEach(procs[p].callback) /\ Return(p)

LockedListExpiredAt(p) ==
    /\ Holding(p, "ListExpiredAt")
    /\ ListExpiredAt(procs[p].now, procs[p].ttl, procs[p].maxCount)
    /\ Return(p)

\* PurgeExpiredAt under the read lock: the scan, then b.mu.RUnlock()
LockedPurgeScan(p) ==
    /\ Holding(p, "PurgeExpiredAt")
    /\ PurgeExpiredAt(procs[p].now, procs[p].ttl, procs[p].maxToDelete)
    /\ mu' = Unlock(mu, p)
    /\ procs' = [procs EXCEPT ![p].pc = "lock2"]

\* PurgeExpiredAt with nothing collected: return 0 without the write lock
PurgeNothing(p) ==
    /\ procs[p].pc = "lock2"
    /\ Len(purge.itemsToDelete) = 0
    /\ PurgeDelete
    /\ procs' = [procs EXCEPT ![p] = NotRunning]
    /\ UNCHANGED mu

\* PurgeExpiredAt under the write lock: the deletions, then b.mu.Unlock()
LockedPurgeDelete(p) ==
    /\ procs[p].pc = "in2"
    /\ PurgeDelete
    /\ Return(p)

\* batches of two different items with a key
LockBatches ==
    {b \in Batches : /\ Len(b) = 2 /\ b[1].id < b[2].id
                     /\ b[1] \in KeyedItems /\ b[2] \in KeyedItems}

\* The calls offered, each with arguments that take it to the lock; one
\* PurgeExpiredAt is in flight at a time.
TtlCalls ==
    {[op |-> "UpsertManyAt", pc |-> "lock", items |-> b, at |-> MaxTick] :
        b \in LockBatches}
    \cup {[op |-> "Delete", pc |-> "lock", item |-> o] : o \in KeyedItems}
    \cup {[op |-> "DeleteMany", pc |-> "lock", items |-> b] : b \in LockBatches}
    \cup {[op |-> "Reset", pc |-> "lock"]}
    \cup {[op |-> "Has", pc |-> "lock", item |-> o] : o \in KeyedItems}
    \cup {[op |-> "Size", pc |-> "lock"]}
    \cup {[op |-> "ForEach", pc |-> "lock",
           callback |-> [isNil |-> FALSE, stopAt |-> 0, scribble |-> FALSE]]}
    \cup {[op |-> "ListExpiredAt", pc |-> "lock",
           now |-> MaxTick, ttl |-> 1, maxCount |-> 0]}
    \cup {[op |-> "PurgeExpiredAt", pc |-> "lock",
           now |-> MaxTick, ttl |-> 1, maxToDelete |-> 0] :
             x \in {q \in {1} : purge.pc = "idle" /\ InFlight("PurgeExpiredAt") = 0}}

storeSide == <<target, txVars, storeVars, simpleVars, histVars>>

LockNext ==
    \/ \E p \in Procs : target = "btree" /\ \E c \in StoreCalls : Call(p, c)
    \/ \E p \in Procs : target = "ttl" /\ \E c \in TtlCalls : Call(p, c)
    \/ \E p \in Procs : Acquire(p)
    \/ \E p \in Procs : Enter(p)
    \/ \E p \in Procs : LockedAdd(p) /\ UNCHANGED <<histVars, ttlVars>>
    \/ \E p \in Procs : LockedGet(p) /\ UNCHANGED <<histVars, ttlVars>>
    \/ \E p \in Procs : LockedLen(p) /\ UNCHANGED <<histVars, ttlVars>>
    \/ \E p \in Procs : LockedDelete(p) /\ UNCHANGED <<histVars, ttlVars>>
    \/ \E p \in Procs : LockedDeleteCheck(p) /\ UNCHANGED <<histVars, ttlVars>>
    \/ \E p \in Procs : target = "btree" /\ StartBackground(p)
    \/ \E p \in Procs :
          LockedCompactIncremental(p) /\ UNCHANGED <<histVars, ttlVars>>
    \/ \E p \in Procs, item \in KeyedItems :
          target = "ttl" /\ CallUpsertAt(p, item, MaxTick)
    \/ \E p \in Procs : LockedUpsertAt(p) /\ UNCHANGED storeSide
    \/ \E p \in Procs : LockedUpsertManyAt(p) /\ UNCHANGED storeSide
    \/ \E p \in Procs : target = "ttl" /\ LockedTtlDelete(p) /\ UNCHANGED storeSide
    \/ \E p \in Procs : LockedDeleteMany(p) /\ UNCHANGED storeSide
    \/ \E p \in Procs : LockedReset(p) /\ UNCHANGED storeSide
    \/ \E p \in Procs : LockedHas(p) /\ UNCHANGED storeSide
    \/ \E p \in Procs : LockedSize(p) /\ UNCHANGED storeSide
    \/ \E p \in Procs : LockedForEach(p) /\ UNCHANGED storeSide
    \/ \E p \in Procs : LockedListExpiredAt(p) /\ UNCHANGED storeSide
    \/ \E p \in Procs : LockedPurgeScan(p) /\ UNCHANGED storeSide
    \/ \E p \in Procs : PurgeNothing(p) /\ UNCHANGED storeSide
    \/ \E p \in Procs : LockedPurgeDelete(p) /\ UNCHANGED storeSide

\* Either store as constructed, its lock free and every goroutine idle; the
\* TTL index is called with one object for each of two keys.
LockInit ==
    /\ target \in {"btree", "ttl"}
    /\ tree = EmptyMap
    /\ storage = <<>>
    /\ tombstones = 0
    /\ threshold = IF target = "btree" THEN <<1, 3>> ELSE <<1, 2>>
    /\ batchSize = 0
    /\ pending = 0
    /\ slotKey = <<>>
    /\ sset = EmptyMap
    /\ sstorage = <<>>
    /\ live = {}
    /\ scenario = [phase |-> "adding", deleted |-> {}]
    /\ last = NoOp
    /\ ttlTree = EmptyMap
    /\ timestampUnixSeconds
         = [o \in {x \in NodeItems : target = "ttl" /\ x.id \in {1, 4}} |-> 0]
    /\ purge = NoPurge
    /\ mu = Unlocked
    /\ procs = [p \in Procs |-> NotRunning]
    /\ maxRetries = 1
    /\ txn = NoTxn

LockSpec == LockInit /\ [][LockNext]_vars

(***************************************************************************)
(* ByteKeyBTree under concurrent writers and readers: every goroutine      *)
(* keeps calling UpsertAt with items of a fixed key set, or ForEach, Has   *)
(* and Size; nothing is deleted.  `live` is the history of the keys whose  *)
(* insertion has happened.                                                 *)
(***************************************************************************)
ReaderCalls ==
    {[op |-> "Has", pc |-> "lock", item |-> o] : o \in KeyedItems}
    \cup {[op |-> "Size", pc |-> "lock"]}
    \cup {[op |-> "ForEach", pc |-> "lock",
           callback |-> [isNil |-> FALSE, stopAt |-> 0, scribble |-> FALSE]]}

\* goroutine p runs the code of its call under the lock
UnderLock(p) ==
    \/ /\ LockedUpsertAt(p)
       /\ live' = live \cup {procs[p].item.keyBytes}
       /\ UNCHANGED <<target, txVars, storeVars, simpleVars, scenario>>
    \/ LockedHas(p) /\ UNCHANGED storeSide
    \/ LockedSize(p) /\ UNCHANGED storeSide
    \/ LockedForEach(p) /\ UNCHANGED storeSide

ReadersWritersNext ==
    \/ \E p \in Procs, item \in KeyedItems, at \in {MaxTick} :
          CallUpsertAt(p, item, at)
    \/ \E p \in Procs, c \in ReaderCalls : Call(p, c)
    \/ \E p \in Procs : Acquire(p)
    \/ \E p \in Procs : Enter(p)
    \/ \E p \in Procs : UnderLock(p)

\* an empty index; the callers hold two objects of one key and one object of
\* another key
ReadersWritersInit ==
    /\ target = "ttl"
    /\ tree = EmptyMap
    /\ storage = <<>>
    /\ tombstones = 0
    /\ threshold = <<1, 2>>
    /\ batchSize = 0
    /\ pending = 0
    /\ slotKey = <<>>
    /\ sset = EmptyMap
    /\ sstorage = <<>>
    /\ live = {}
    /\ scenario = [phase |-> "adding", deleted |-> {}]
    /\ last = NoOp
    /\ ttlTree = EmptyMap
    /\ timestampUnixSeconds = [o \in {x \in NodeItems : x.id \in {1, 2, 4}} |-> 0]
    /\ purge = NoPurge
    /\ mu = Unlocked
    /\ procs = [p \in Procs |-> NotRunning]
    /\ maxRetries = 1
    /\ txn = NoTxn

\* Fairness: a goroutine that is inside, or that can go inside, goes on
\* running (the scheduler is fair), and a goroutine that asks for the mutex
\* gets it if it can be had again and again (sync.Mutex hands the lock to a
\* waiter that starved, and Unlock lets the readers in that waited).
ReadersWritersSpec ==
    /\ ReadersWritersInit
    /\ [][ReadersWritersNext]_vars
    /\ \A p \in Procs :
          WF_vars(UnderLock(p)) /\ WF_vars(Enter(p)) /\ SF_vars(Acquire(p))

(***************************************************************************)
(* ByteKeyBTree purged while it is written: the index starts with stale    *)
(* and fresh records, writers keep upserting with a fresh time only, and a *)
(* purger keeps calling PurgeExpiredAt(now, ttl, n) with the same now and  *)
(* ttl and a limit n > 0.                                                  *)
(***************************************************************************)
PurgeNow == MaxTick
PurgeTtl == 1
FreshAt == TimeAdd(PurgeNow, TicksPerSecond)

\* the purger's call, the scan phase
PurgerScan ==
    \E maxToDelete \in 1..MaxLimit :
        PurgeExpiredAt(PurgeNow, PurgeTtl, maxToDelete) /\ UNCHANGED nonTtlVars

\* the purger's call, from the end of the scan on
PurgerDelete == PurgeDelete /\ UNCHANGED nonTtlVars

PurgeWhileWritingNext ==
    \/ \E item \in ItemArgs : UpsertAt(item, FreshAt) /\ UNCHANGED nonTtlVars
    \/ PurgerScan
    \/ PurgerDelete

\* The index after the start-up upserts: a record for every key of the pool
\* (the object with the greatest id where two objects have the key), each
\* with an old or a fresh expiration.
PurgeWhileWritingInit ==
    /\ target = "ttl"
    /\ tree = EmptyMap
    /\ storage = <<>>
    /\ tombstones = 0
    /\ threshold = <<1, 2>>
    /\ batchSize = 0
    /\ pending = 0
    /\ slotKey = <<>>
    /\ sset = EmptyMap
    /\ sstorage = <<>>
    /\ live = {}
    /\ scenario = [phase |-> "adding", deleted |-> {}]
    /\ last = NoOp
    /\ timestampUnixSeconds
         \in {f \in UNION {[pool -> {0, Unix(PurgeNow - PurgeTtl), Unix(FreshAt)}] :
                              pool \in ItemPools} :
                 \A o \in DOMAIN f : Len(o.keyBytes) = 0 => f[o] = 0}
    /\ ttlTree = [k \in {o.keyBytes : o \in {x \in DOMAIN timestampUnixSeconds :
                                                Len(x.keyBytes) > 0}} |->
                    CHOOSE o \in DOMAIN timestampUnixSeconds :
                        /\ o.keyBytes = k
                        /\ \A x \in DOMAIN timestampUnixSeconds :
                              x.keyBytes = k => x.id <= o.id]
    /\ purge = NoPurge
    /\ mu = Unlocked
    /\ procs = [p \in Procs |-> NotRunning]
    /\ maxRetries = 1
    /\ txn = NoTxn

\* Fairness: the purger's ticker fires for ever, so a call of PurgeExpiredAt
\* that can start does start, and a call that was started runs to its end.
PurgeWhileWritingSpec ==
    /\ PurgeWhileWritingInit
    /\ [][PurgeWhileWritingNext]_vars
    /\ WF_vars(PurgerScan)
    /\ WF_vars(PurgerDelete)

(***************************************************************************)
(* ByteKeyBTree driven by one caller that also calls Reset.  The history   *)
(* variable scenario remembers the keys the last Reset cleared and whether *)
(* the call that has just returned is the first one after that Reset.      *)
(***************************************************************************)
AfterReset ==
    scenario' = [scenario EXCEPT
                    !.phase = IF @ = "reset" THEN "first"
                              ELSE IF @ = "first" THEN "later" ELSE @]

TTLResetNext ==
    \/ \E item \in ItemArgs, at \in {0, MaxTick} :
          /\ UpsertAt(item, at) /\ AfterReset
          /\ UNCHANGED <<target, txVars, storeVars, simpleVars, live, lockVars>>
    \/ \E item \in ItemArgs :
          /\ TtlDelete(item) /\ AfterReset
          /\ UNCHANGED <<target, txVars, storeVars, simpleVars, live, lockVars>>
    \/ \E item \in ItemArgs :
          /\ Has(item) /\ AfterReset
          /\ UNCHANGED <<target, txVars, storeVars, simpleVars, live, lockVars>>
    \/ /\ Size /\ AfterReset
       /\ UNCHANGED <<target, txVars, storeVars, simpleVars, live, lockVars>>
    \/ /\ Reset
       /\ scenario' = [phase |-> "reset", deleted |-> DOMAIN ttlTree]
       /\ UNCHANGED <<target, txVars, storeVars, simpleVars, live, lockVars>>

TTLResetInit ==
    /\ target = "ttl"
    /\ tree = EmptyMap
    /\ storage = <<>>
    /\ tombstones = 0
    /\ threshold = <<1, 2>>
    /\ batchSize = 0
    /\ pending = 0
    /\ slotKey = <<>>
    /\ sset = EmptyMap
    /\ sstorage = <<>>
    /\ live = {}
    /\ scenario = [phase |-> "adding", deleted |-> {}]
    /\ last = NoOp
    /\ ttlTree = EmptyMap
    /\ timestampUnixSeconds \in {[o \in pool |-> 0] : pool \in ItemPools}
    /\ purge = NoPurge
    /\ mu = Unlocked
    /\ procs = [p \in Procs |-> NotRunning]
    /\ maxRetries = 1
    /\ txn = NoTxn

TTLResetSpec == TTLResetInit /\ [][TTLResetNext]_vars

(***************************************************************************)
(* The transaction manager of the sdk.  One caller, one call at a time.    *)
(* What the caller's function returns, what Commit returns and when the    *)
(* caller's context is cancelled are choices of the environment.  txn is   *)
(* the call: its method fn, the place pc it has reached, the loop counter  *)
(* attempt, the number runs of invocations of the caller's function, the   *)
(* number txs of transactions created, whether the transaction of the      *)
(* attempt is open (neither committed nor discarded), whether the context  *)
(* is cancelled, what the last Commit returned and what the call returned. *)
(***************************************************************************)
ActionOutcomes == {"nil", "err", "panic"}
CommitOutcomes == {"nil", "ErrConflict", "err"}

NewCall(fn, cancelled) ==
    [fn |-> fn, pc |-> "top", attempt |-> 0, runs |-> 0, txs |-> 0,
     open |-> FALSE, cancelled |-> cancelled, commit |-> "none",
     result |-> "none"]

\* the error a failed Commit gives the caller
CommitError(o) == IF o = "err" THEN "commitErr" ELSE o

\* ExecuteReadWrite to the return of fn: NewTransaction, fn; an error of fn
\* is returned, a panic of fn goes on to the caller, the deferred Discard
\* runs either way
ExecuteReadWriteRun(t, o) ==
    LET ran == [t EXCEPT !.runs = @ + 1, !.txs = @ + 1]
    IN IF o = "nil" THEN [ran EXCEPT !.pc = "commit", !.open = TRUE]
       ELSE [ran EXCEPT !.pc = "done", !.open = FALSE,
                        !.result = IF o = "err" THEN "actionErr" ELSE "panic"]

\* a plausible slip, and what the claim of a retry describes: a conflict of
\* the first attempt starts a second one
ExecuteReadWriteCommitRetry(t, o) ==
    IF o = "ErrConflict" /\ t.attempt = 0
    THEN [t EXCEPT !.pc = "top", !.open = FALSE, !.commit = o,
                   !.attempt = @ + 1]
    ELSE [t EXCEPT !.pc = "done", !.open = FALSE, !.commit = o,
                   !.result = CommitError(o)]

\* ExecuteReadWrite: return tx.Commit(), then the deferred Discard
ExecuteReadWriteCommit(t, o) ==
    [t EXCEPT !.pc = "done", !.open = FALSE, !.commit = o,
              !.result = CommitError(o)]

\* ExecuteReadWriteWithContext, top of the loop: ctx.Err(), NewTransaction
AttemptBegin(t) ==
    IF t.cancelled THEN [t EXCEPT !.pc = "done", !.result = "ctxErr"]
    ELSE [t EXCEPT !.pc = "run", !.txs = @ + 1, !.open = TRUE]

\* the action under recover, and the test of runErr
RunAction(t, o) ==
    LET ran == [t EXCEPT !.runs = @ + 1]
    IN IF o = "nil" THEN [ran EXCEPT !.pc = "ran"]
       ELSE [ran EXCEPT !.pc = "done", !.open = FALSE,
                        !.result = IF o = "err" THEN "actionErr"
                                   ELSE "panicErr"]

\* a plausible slip: one retry too many
CommitAttemptOffByOne(t, mr, o) ==
    IF t.cancelled
    THEN [t EXCEPT !.pc = "done", !.open = FALSE, !.result = "ctxErr"]
    ELSE IF o = "nil"
    THEN [t EXCEPT !.pc = "done", !.open = FALSE, !.commit = o,
                   !.result = "nil"]
    ELSE IF o = "ErrConflict" /\ t.attempt <= mr
    THEN [t EXCEPT !.pc = "sleep", !.open = FALSE, !.commit = o]
    ELSE [t EXCEPT !.pc = "done", !.open = FALSE, !.commit = o,
                   !.result = CommitError(o)]

\* the second ctx.Err() and tx.Commit() with the handling of its error
CommitAttempt(t, mr, o) ==
    IF t.cancelled
    THEN [t EXCEPT !.pc = "done", !.open = FALSE, !.result = "ctxErr"]
    ELSE IF o = "nil"
    THEN [t EXCEPT !.pc = "done", !.open = FALSE, !.commit = o,
                   !.result = "nil"]
    ELSE IF o = "ErrConflict" /\ t.attempt < mr
    THEN [t EXCEPT !.pc = "sleep", !.open = FALSE, !.commit = o]
    ELSE [t EXCEPT !.pc = "done", !.open = FALSE, !.commit = o,
                   !.result = CommitError(o)]

\* sleepWithJitter and what the loop does with its result: the select ends
\* with ctx.Done() or with the timer; `continue` then counts the attempt
sleepWithJitter(t, woke) ==
    IF woke = "ctx" THEN [t EXCEPT !.pc = "done", !.result = "ctxErr"]
    ELSE [t EXCEPT !.pc = "top", !.attempt = @ + 1]

txKeep == <<target, storeVars, simpleVars, histVars, ttlVars, lockVars,
            last, maxRetries>>

CallExecuteReadWrite ==
    /\ txn.pc \in {"idle", "done"}
    /\ txn' = NewCall("ExecuteReadWrite", FALSE)
    /\ UNCHANGED txKeep

CallExecuteReadWriteWithContext ==
    /\ txn.pc \in {"idle", "done"}
    /\ \E cancelled \in BOOLEAN :
          txn' = NewCall("ExecuteReadWriteWithContext", cancelled)
    /\ UNCHANGED txKeep

\* the caller's context is cancelled while the call runs
CtxCancel ==
    /\ txn.fn = "ExecuteReadWriteWithContext"
    /\ txn.pc \notin {"idle", "done"}
    /\ ~txn.cancelled
    /\ txn' = [txn EXCEPT !.cancelled = TRUE]
    /\ UNCHANGED txKeep

StepExecuteReadWrite ==
    /\ txn.fn = "ExecuteReadWrite"
    /\ \/ /\ txn.pc = "top"
          /\ \E o \in ActionOutcomes : txn' = ExecuteReadWriteRun(txn, o)
       \/ /\ txn.pc = "commit"
          /\ \E o \in CommitOutcomes : txn' = ExecuteReadWriteCommit(txn, o)
    /\ UNCHANGED txKeep

StepExecuteReadWriteWithContext ==
    /\ txn.fn = "ExecuteReadWriteWithContext"
    /\ \/ txn.pc = "top" /\ txn' = AttemptBegin(txn)
       \/ /\ txn.pc = "run"
          /\ \E o \in ActionOutcomes : txn' = RunAction(txn, o)
       \/ /\ txn.pc = "ran"
          /\ \E o \in CommitOutcomes :
                txn' = CommitAttempt(txn, maxRetries, o)
       \/ /\ txn.pc = "sleep"
          /\ \E woke \in {"timer"} \cup (IF txn.cancelled THEN {"ctx"} ELSE {}) :
                txn' = sleepWithJitter(txn, woke)
    /\ UNCHANGED txKeep

TxNext ==
    \/ CallExecuteReadWrite
    \/ CallExecuteReadWriteWithContext
    \/ CtxCancel
    \/ StepExecuteReadWrite
    \/ StepExecuteReadWriteWithContext

TxInit ==
    /\ target = "manager"
    /\ tree = EmptyMap
    /\ storage = <<>>
    /\ tombstones = 0
    /\ threshold = <<1, 2>>
    /\ batchSize = 0
    /\ pending = 0
    /\ slotKey = <<>>
    /\ sset = EmptyMap
    /\ sstorage = <<>>
    /\ live = {}
    /\ scenario = [phase |-> "adding", deleted |-> {}]
    /\ last = NoOp
    /\ ttlTree = EmptyMap
    /\ timestampUnixSeconds = EmptyMap
    /\ purge = NoPurge
    /\ mu = Unlocked
    /\ procs = [p \in Procs |-> NotRunning]
    /\ maxRetries \in 1..MaxRetries
    /\ txn = NoTxn

\* Fairness: the goroutine of the call goes on running, the caller's
\* function and Commit return, and the timer of the backoff fires.
TxSpec ==
    /\ TxInit
    /\ [][TxNext]_vars
    /\ WF_vars(StepExecuteReadWrite)
    /\ WF_vars(StepExecuteReadWriteWithContext)

(***************************************************************************)
(* ByteKeyBTree.ForEach with callbacks that call the tree they traverse.   *)
(* A callback is invoked by the traversal, between b.mu.RLock() and        *)
(* b.mu.RUnlock(); when it calls a method of the tree, the goroutine is in *)
(* that call, with the ForEach it came from as `outer`, and asks for the   *)
(* lock of the method like any caller.                                     *)
(***************************************************************************)
\* what a callback may call on its first invocation, after which it stops
\* the traversal
CallbackCalls ==
    {NotRunning, [op |-> "Reset", pc |-> "lock"]}
    \cup {[op |-> "Delete", pc |-> "lock", item |-> o] : o \in KeyedItems}
    \cup {[op |-> "UpsertAt", pc |-> "lock", item |-> o, at |-> MaxTick] :
             o \in KeyedItems}

ForEachCalls ==
    {[op |-> "ForEach", pc |-> "lock",
      callback |-> [isNil |-> FALSE, stopAt |-> 1, scribble |-> FALSE,
                    calls |-> c]] : c \in CallbackCalls}

\* the traversal of goroutine p invokes the callback, which makes its call
\* (UpsertAt sets the timestamp of its item before it asks for the lock)
InvokeCallback(p) ==
    LET c == procs[p].callback.calls
    IN /\ Holding(p, "ForEach")
       /\ c # NotRunning
       /\ ttlTree # EmptyMap
       /\ procs' = [procs EXCEPT ![p] = c @@ ("outer" :> procs[p])]
       /\ timestampUnixSeconds' =
             IF c.op = "UpsertAt"
             THEN [timestampUnixSeconds EXCEPT ![c.item] = Unix(c.at)]
             ELSE timestampUnixSeconds
       /\ UNCHANGED <<target, txVars, storeVars, simpleVars, histVars, ttlTree,
                      purge, last, mu>>

\* a traversal whose callback calls nothing, or which has nothing to visit
PlainForEach(p) ==
    /\ Holding(p, "ForEach")
    /\ procs[p].callback.calls = NotRunning \/ ttlTree = EmptyMap
    /\ LockedForEach(p)

ReentrantNext ==
    \/ \E p \in Procs, item \in KeyedItems : CallUpsertAt(p, item, MaxTick)
    \/ \E p \in Procs, c \in ForEachCalls \cup {[op |-> "Reset", pc |-> "lock"]} :
          Call(p, c)
    \/ \E p \in Procs : Acquire(p)
    \/ \E p \in Procs : Enter(p)
    \/ \E p \in Procs : LockedUpsertAt(p) /\ UNCHANGED storeSide
    \/ \E p \in Procs : LockedReset(p) /\ UNCHANGED storeSide
    \/ \E p \in Procs : PlainForEach(p) /\ UNCHANGED storeSide
    \/ \E p \in Procs : InvokeCallback(p)

ReentrantInit ==
    /\ target = "ttl"
    /\ tree = EmptyMap
    /\ storage = <<>>
    /\ tombstones = 0
    /\ threshold = <<1, 2>>
    /\ batchSize = 0
    /\ pending = 0
    /\ slotKey = <<>>
    /\ sset = EmptyMap
    /\ sstorage = <<>>
    /\ live = {}
    /\ scenario = [phase |-> "adding", deleted |-> {}]
    /\ last = NoOp
    /\ ttlTree = EmptyMap
    /\ timestampUnixSeconds = [o \in {x \in NodeItems : x.id \in {1, 4}} |-> 0]
    /\ purge = NoPurge
    /\ mu = Unlocked
    /\ procs = [p \in Procs |-> NotRunning]
    /\ maxRetries = 1
    /\ txn = NoTxn

\* Fairness: every goroutine goes on running, and one that asks for the
\* mutex gets it if it can be had again and again.
ReentrantSpec ==
    /\ ReentrantInit
    /\ [][ReentrantNext]_vars
    /\ \A p \in Procs :
          /\ WF_vars(LockedUpsertAt(p) /\ UNCHANGED storeSide)
          /\ WF_vars(LockedReset(p) /\ UNCHANGED storeSide)
          /\ WF_vars(PlainForEach(p) /\ UNCHANGED storeSide)
          /\ WF_vars(InvokeCallback(p))
          /\ WF_vars(Enter(p))
          /\ SF_vars(Acquire(p))

(***************************************************************************)
(* ByteKeyBTree and the expiration of its records: goroutines call         *)
(* UpsertAt at two different times, Delete, ForEach and GetLastWriteUnix.  *)
(* UpsertAt sets the expiration of its item before it asks for the lock,   *)
(* and GetLastWriteUnix reads the expiration of the record it found after  *)
(* b.mu.RUnlock(); its call is two steps.                                  *)
(***************************************************************************)
\* GetLastWriteUnix under the read lock: b.tree.Get(item), b.mu.RUnlock(),
\* and the return of (0, false) when nothing was found
LockedLookup(p) ==
    LET c == procs[p]
    IN /\ Holding(p, "GetLastWriteUnix")
       /\ mu' = Unlock(mu, p)
       /\ IF c.item.keyBytes \in DOMAIN ttlTree
          THEN /\ procs' = [procs EXCEPT
                              ![p] = [op |-> "GetLastWriteUnix", pc |-> "read",
                                      item |-> c.item,
                                      res |-> ttlTree[c.item.keyBytes]]]
               /\ UNCHANGED last
          ELSE /\ procs' = [procs EXCEPT ![p] = NotRunning]
               /\ last' = [op |-> "GetLastWriteUnix", item |-> c.item.id,
                           unix |-> 0, found |-> FALSE]
       /\ UNCHANGED ttlVars

\* GetLastWriteUnix after the lock: return res.(Item).GetExpirationTime(), true
ReadExpiration(p) ==
    LET c == procs[p]
    IN /\ c.op = "GetLastWriteUnix" /\ c.pc = "read"
       /\ last' = [op |-> "GetLastWriteUnix", item |-> c.item.id,
                   unix |-> timestampUnixSeconds[c.res], found |-> TRUE]
       /\ procs' = [procs EXCEPT ![p] = NotRunning]
       /\ UNCHANGED <<ttlVars, mu>>

ExpirationCalls ==
    {[op |-> "Delete", pc |-> "lock", item |-> o] : o \in KeyedItems}
    \cup {[op |-> "GetLastWriteUnix", pc |-> "lock", item |-> o] : o \in KeyedItems}
    \cup {[op |-> "ForEach", pc |-> "lock",
           callback |-> [isNil |-> FALSE, stopAt |-> 0, scribble |-> FALSE]]}

ExpirationNext ==
    \/ \E p \in Procs, item \in KeyedItems, at \in {0, MaxTick} :
          CallUpsertAt(p, item, at)
    \/ \E p \in Procs, c \in ExpirationCalls : Call(p, c)
    \/ \E p \in Procs : Acquire(p)
    \/ \E p \in Procs : Enter(p)
    \/ \E p \in Procs : LockedUpsertAt(p) /\ UNCHANGED storeSide
    \/ \E p \in Procs : LockedTtlDelete(p) /\ UNCHANGED storeSide
    \/ \E p \in Procs : LockedForEach(p) /\ UNCHANGED storeSide
    \/ \E p \in Procs : LockedLookup(p) /\ UNCHANGED storeSide
    \/ \E p \in Procs : ReadExpiration(p) /\ UNCHANGED storeSide

\* an empty index; the callers hold one object for each of two keys
ExpirationInit ==
    /\ target = "ttl"
    /\ tree = EmptyMap
    /\ storage = <<>>
    /\ tombstones = 0
    /\ threshold = <<1, 2>>
    /\ batchSize = 0
    /\ pending = 0
    /\ slotKey = <<>>
    /\ sset = EmptyMap
    /\ sstorage = <<>>
    /\ live = {}
    /\ scenario = [phase |-> "adding", deleted |-> {}]
    /\ last = NoOp
    /\ ttlTree = EmptyMap
    /\ timestampUnixSeconds = [o \in {x \in NodeItems : x.id \in {1, 4}} |-> 0]
    /\ purge = NoPurge
    /\ mu = Unlocked
    /\ procs = [p \in Procs |-> NotRunning]
    /\ maxRetries = 1
    /\ txn = NoTxn

ExpirationSpec == ExpirationInit /\ [][ExpirationNext]_vars

(***************************************************************************)
(* Claims about BTreeIndexedStorage and SimpleFastStorage.                 *)
(***************************************************************************)
IsCompactStep == last'.op = "Compact"

\* whether the slot of an indexed key holds a value
HoldsValue(t, st, k) == k \in DOMAIN t /\ Slot(st, t[k]) # Nil

\* the number of index entries a compaction inspects
Inspected(t, bs) ==
    IF bs > 0 /\ bs < Cardinality(DOMAIN t) THEN bs ELSE Cardinality(DOMAIN t)

\* C1: in a run that adds N distinct keys, deletes M < N of them and then
\* calls CompactIncremental, Len() = N - M after the deletes and after the
\* compaction, and after the compaction Get finds none of the deleted keys.
C1_RoundTrip ==
    /\ scenario.phase \in {"adding", "deleting", "compacted"}
          => LenResult(tree) = Cardinality(live)
    /\ scenario.phase = "compacted"
          => \A k \in scenario.deleted : ~GetResult(tree, storage, k).found

\* C2: a compaction with batchSize B > 0 keeps exactly the value-holding
\* entries among the first B index entries in ascending key order, so every
\* key after the B-th entry is absent afterwards and Len() shrinks if one of
\* them was live; the tombstone counter is 0 afterwards; with B = 0 or at
\* most B entries indexed no live key is lost and its value is kept.
C2_PartialCompaction ==
    [][IsCompactStep =>
        LET ks == Ascend(DOMAIN tree)
            n == Inspected(tree, batchSize)
            rest == {ks[i] : i \in (n + 1)..Len(ks)}
        IN /\ DOMAIN tree' =
                {ks[i] : i \in {j \in 1..n : HoldsValue(tree, storage, ks[j])}}
           /\ tombstones' = 0
           /\ \A k \in rest : ~GetResult(tree', storage', k).found
           /\ (\E k \in rest : HoldsValue(tree, storage, k))
                 => LenResult(tree') < LenResult(tree)
           /\ (batchSize = 0 \/ Cardinality(DOMAIN tree) <= batchSize)
                 => \A k \in DOMAIN tree :
                       HoldsValue(tree, storage, k)
                          => GetResult(tree', storage', k)
                                = GetResult(tree, storage, k)]_vars

\* a compaction was cut short and dropped an entry it never inspected
C2_Witness ==
    /\ last.op = "Compact"
    /\ last.scanned < last.indexed
    /\ LenResult(tree) = last.scanned
    /\ tombstones = 0

\* C3: Add of a key that is already indexed leaves the index, the backing
\* sequence and the tombstone counter unchanged, in BTreeIndexedStorage and
\* in SimpleFastStorage, so Get of the key returns what it returned before.
C3_AddFirstWriterWins ==
    [][/\ (last'.op = "Add" /\ last'.key \in DOMAIN tree)
            => /\ tree' = tree
               /\ storage' = storage
               /\ tombstones' = tombstones
               /\ GetResult(tree', storage', last'.key)
                     = GetResult(tree, storage, last'.key)
       /\ (last'.op = "SimpleAdd" /\ last'.key \in DOMAIN sset)
            => /\ sset' = sset
               /\ sstorage' = sstorage
               /\ SimpleGetResult(sset', sstorage', last'.key)
                     = SimpleGetResult(sset, sstorage, last'.key)]_vars

\* a duplicate Add with a value other than the stored one has run
C3_Witness ==
    /\ last.op = "Add"
    /\ last.dup
    /\ last.val # Nil
    /\ GetResult(tree, storage, last.key).found
    /\ GetResult(tree, storage, last.key).val \notin {Nil, last.val}

\* the same for SimpleFastStorage
C3_WitnessSimple ==
    /\ last.op = "SimpleAdd"
    /\ last.dup
    /\ SimpleGetResult(sset, sstorage, last.key).found
    /\ SimpleGetResult(sset, sstorage, last.key).val # last.val

\* C4: Get(k) returns found = false when k is not indexed or its slot holds
\* no value (nil), and found = true with the slot's value otherwise.
C4_GetFound ==
    last.op = "Get" =>
        /\ last.found <=> HoldsValue(tree, storage, last.key)
        /\ last.found => last.val = Slot(storage, tree[last.key])

\* C5: Delete of an indexed key removes it from the index, clears its slot,
\* keeps the length of the backing sequence and every other entry's position
\* and value, and adds exactly 1 to the tombstone counter; Delete of a key
\* that is not indexed changes nothing and starts no compaction.
C5_DeleteFrame ==
    [][last'.op = "Delete" =>
        LET k == last'.key
        IN IF k \in DOMAIN tree
           THEN /\ DOMAIN tree' = DOMAIN tree \ {k}
                /\ \A x \in DOMAIN tree' : tree'[x] = tree[x]
                /\ Len(storage') = Len(storage)
                /\ Slot(storage', tree[k]) = Nil
                /\ \A i \in 1..Len(storage) :
                      i # tree[k] + 1 => storage'[i] = storage[i]
                /\ tombstones' = tombstones + 1
           ELSE /\ tree' = tree
                /\ storage' = storage
                /\ tombstones' = tombstones
                /\ pending' = pending]_vars

\* a Delete removed one key and left another key indexed
C5_Witness ==
    /\ last.op = "Delete"
    /\ last.found
    /\ last.key \notin DOMAIN tree
    /\ DOMAIN tree # {}
    /\ tombstones > 0

\* C6: Len() is the number of keys that were added and not deleted since.
C6_LenIsLiveKeys == LenResult(tree) = Cardinality(live)

\* C7: Delete starts a background compaction exactly when the key was
\* indexed and, after the delete, tombstones / len(storage) > threshold;
\* a ratio equal to the threshold starts none.
C7_DeleteLaunch ==
    [][last'.op = "Delete" =>
        /\ pending' \in {pending, pending + 1}
        /\ pending' = pending + 1
              <=> /\ last'.key \in DOMAIN tree
                  /\ tombstones' * threshold[2] > threshold[1] * Len(storage')]_vars

\* a Delete left the ratio exactly at the threshold and started nothing
C7_Witness ==
    /\ last.op = "Delete"
    /\ last.found
    /\ ~last.launched
    /\ tombstones * threshold[2] = threshold[1] * Len(storage)

\* C8: after a compaction whose scan reached the end of the index, the index
\* holds exactly the entries whose slot held a value, with positions 0..n-1
\* in ascending key order, the backing sequence has n slots holding the
\* values the keys had before, and the tombstone counter is 0.
C8_FullCompaction ==
    [][(IsCompactStep /\ (batchSize = 0 \/ Cardinality(DOMAIN tree) <= batchSize)) =>
        LET kept == {k \in DOMAIN tree : HoldsValue(tree, storage, k)}
            ks == Ascend(kept)
        IN /\ DOMAIN tree' = kept
           /\ \A i \in 1..Len(ks) : tree'[ks[i]] = i - 1
           /\ Len(storage') = Cardinality(kept)
           /\ \A k \in kept : Slot(storage', tree'[k]) = Slot(storage, tree[k])
           /\ tombstones' = 0]_vars

\* a full compaction rebuilt a store of two entries
C8_Witness ==
    /\ last.op = "Compact"
    /\ (batchSize = 0 \/ last.indexed <= batchSize)
    /\ last.indexed = 2
    /\ LenResult(tree) = 2

\* a slot whose key was deleted (or lost) and that compaction has not yet
\* reclaimed
Tombstoned(t, owner, i) == owner[i] \notin DOMAIN t \/ t[owner[i]] # i - 1

\* C9: outside compaction a tombstoned slot is never given a value again
\* and keeps its place; an Add of a key that is not indexed (such as one
\* deleted before) appends a slot at position len(storage), and Get then
\* returns the added value.
C9_NoRevival ==
    [][/\ ~IsCompactStep
            => \A i \in 1..Len(storage) :
                  Tombstoned(tree, slotKey, i)
                     => /\ Len(storage') >= i
                        /\ storage'[i] = Nil
                        /\ Tombstoned(tree', slotKey', i)
       /\ (last'.op = "Add" /\ last'.key \notin DOMAIN tree)
            => /\ tree'[last'.key] = Len(storage)
               /\ storage' = Append(storage, last'.val)
               /\ GetResult(tree', storage', last'.key)
                     = [val |-> last'.val, found |-> TRUE]]_vars

\* a key was deleted and added again: its old slot is still cleared and the
\* key points to a new slot
C9_Witness ==
    /\ last.op = "Add"
    /\ ~last.dup
    /\ last.val # Nil
    /\ \E i \in 1..Len(storage) :
          /\ slotKey[i] = last.key
          /\ storage[i] = Nil
          /\ i - 1 < tree[last.key]
    /\ GetResult(tree, storage, last.key).val = last.val

(***************************************************************************)
(* Claims about ByteKeyBTree.                                              *)
(***************************************************************************)
\* the records of t that are expired at now for ttl: their expiration, a
\* whole number of seconds, is not after the instant now - ttl
ExpiredKeys(t, ts, now, ttl) ==
    {k \in DOMAIN t : ts[t[k]] * TicksPerSecond <= now - ttl}

\* C10: a PurgeExpiredAt(now, ttl > 0, maxToDelete <= 0) during which no
\* other call ran deletes exactly the records whose expiration <= now - ttl
\* (a record at the cutoff second included, one a second later not),
\* returns how many it deleted, and leaves every other record, and the
\* expiration of every record, as it was.
C10_PurgeExact ==
    [][(purge.pc = "scanned" /\ purge'.pc = "idle"
        /\ purge.clean /\ purge.maxToDelete <= 0 /\ purge.ttl > 0)
       => LET gone == ExpiredKeys(ttlTree, timestampUnixSeconds,
                                  purge.now, purge.ttl)
          IN /\ DOMAIN ttlTree' = DOMAIN ttlTree \ gone
             /\ \A k \in DOMAIN ttlTree' : ttlTree'[k] = ttlTree[k]
             /\ timestampUnixSeconds' = timestampUnixSeconds
             /\ last'.op = "PurgeExpiredAt"
             /\ last'.deleted = Cardinality(gone)]_vars

\* an undisturbed unbounded purge has deleted one record and kept a record
\* whose expiration is the second after the cutoff, while the record with
\* the smaller key, written at the cutoff second, is gone
C10_Witness ==
    /\ last.op = "PurgeExpiredAt"
    /\ last.clean /\ last.maxToDelete <= 0 /\ last.ttl > 0
    /\ last.deleted = 1
    /\ <<1>> \notin DOMAIN ttlTree
    /\ \A o \in DOMAIN timestampUnixSeconds :
          o.keyBytes = <<1>>
          => timestampUnixSeconds[o] = Unix(last.now - last.ttl)
    /\ \E k \in DOMAIN ttlTree :
          timestampUnixSeconds[ttlTree[k]] = Unix(last.now - last.ttl) + 1
    /\ (last.now - last.ttl) % TicksPerSecond # 0

\* the keys of a sequence of items
ItemKeys(items) == {items[i].keyBytes : i \in 1..Len(items)}

\* the items are records of the index t, in strictly increasing key order
LiveAscending(t, items) ==
    /\ \A i \in 1..Len(items) :
          items[i].keyBytes \in DOMAIN t /\ t[items[i].keyBytes] = items[i]
    /\ \A i, j \in 1..Len(items) :
          i < j => BytesCompare(items[i].keyBytes, items[j].keyBytes) < 0

\* the keys of S are the n smallest keys of E
SmallestOf(S, E, n) ==
    /\ S \subseteq E
    /\ Cardinality(S) = n
    /\ \A k \in S, m \in E \ S : BytesCompare(k, m) < 0

\* min(n, e) for a limit n that counts only when positive
Limited(n, e) == IF n > 0 /\ n < e THEN n ELSE e

\* C11: ListExpiredAt(now, ttl > 0, maxCount) returns, in ascending key
\* order, the records of the index whose expiration <= now - ttl (boundary
\* included), only the first maxCount of them when maxCount > 0, all of them
\* when maxCount <= 0, and leaves the key set and every expiration unchanged.
C11_ListExpired ==
    [][(last'.op = "ListExpiredAt" /\ last'.ttl > 0)
       => LET el == ExpiredKeys(ttlTree, timestampUnixSeconds,
                                last'.now, last'.ttl)
          IN /\ ~last'.isNil
             /\ LiveAscending(ttlTree, last'.out)
             /\ SmallestOf(ItemKeys(last'.out), el,
                           Limited(last'.maxCount, Cardinality(el)))
             /\ Len(last'.out) = Cardinality(ItemKeys(last'.out))
             /\ ttlTree' = ttlTree
             /\ timestampUnixSeconds' = timestampUnixSeconds]_vars

\* a listing limited to one record returned the record with the smallest
\* key, written at the cutoff second, although a second record is expired
\* too, and a third one, a second younger, is not
C11_Witness ==
    /\ last.op = "ListExpiredAt" /\ last.ttl > 0 /\ last.maxCount = 1
    /\ Len(last.out) = 1
    /\ timestampUnixSeconds[last.out[1]] = Unix(last.now - last.ttl)
    /\ (last.now - last.ttl) % TicksPerSecond # 0
    /\ \E k \in DOMAIN ttlTree \ ItemKeys(last.out) :
          timestampUnixSeconds[ttlTree[k]] <= Unix(last.now - last.ttl)
    /\ \E k \in DOMAIN ttlTree :
          timestampUnixSeconds[ttlTree[k]] = Unix(last.now - last.ttl) + 1

\* what an unbounded PurgeExpiredAt(now, ttl, 0) does to the index t when
\* nothing runs between its two phases
UnboundedPurge(t, ts, now, ttl) ==
    PurgeDeleteItems(t, PurgeAscend(Ascend(DOMAIN t), t, ts,
                                    Unix(TimeAdd(now, -ttl)), 0, <<>>), 0)

\* C12: a PurgeExpiredAt(now, ttl, n) with n > 0 that runs alone, on an
\* index with e expired records, deletes exactly min(n, e) records, the
\* expired ones with the smallest keys, and a following call with
\* maxToDelete = 0 deletes the other e - min(n, e) expired records.
C12_BoundedPurge ==
    [][(purge.pc = "scanned" /\ purge'.pc = "idle"
        /\ purge.clean /\ purge.maxToDelete > 0)
       => LET el == ExpiredKeys(ttlTree, timestampUnixSeconds,
                                purge.now, purge.ttl)
              d == Limited(purge.maxToDelete, Cardinality(el))
              next == UnboundedPurge(ttlTree', timestampUnixSeconds',
                                     purge.now, purge.ttl)
          IN /\ last'.op = "PurgeExpiredAt" /\ last'.deleted = d
             /\ SmallestOf(DOMAIN ttlTree \ DOMAIN ttlTree', el, d)
             /\ \A k \in DOMAIN ttlTree' : ttlTree'[k] = ttlTree[k]
             /\ next.deleted = Cardinality(el) - d
             /\ DOMAIN next.tree = DOMAIN ttlTree \ el]_vars

\* a purge bounded to one deletion has deleted the record with the smallest
\* key and left a record that is expired as well
C12_Witness ==
    /\ last.op = "PurgeExpiredAt" /\ last.clean
    /\ last.maxToDelete = 1 /\ last.deleted = 1
    /\ <<1>> \notin DOMAIN ttlTree
    /\ ExpiredKeys(ttlTree, timestampUnixSeconds, last.now, last.ttl) # {}

\* every record of the index was written before now
AllOlder(t, ts, now) ==
    t # EmptyMap /\ \A k \in DOMAIN t : ts[t[k]] * TicksPerSecond < now

\* C13: with ttl <= 0, whatever the index holds and whatever now and the
\* limit are, PurgeExpiredAt returns 0 and ListExpiredAt returns nil, and
\* both leave the index as it was, also when every record is older than now.
C13_NonPositiveTtl ==
    [][/\ (last'.op = "PurgeExpiredAt" /\ last'.ttl <= 0)
          => /\ last'.deleted = 0
             /\ ttlTree' = ttlTree
             /\ timestampUnixSeconds' = timestampUnixSeconds
       /\ (last'.op = "ListExpiredAt" /\ last'.ttl <= 0)
          => /\ last'.isNil /\ last'.out = <<>>
             /\ ttlTree' = ttlTree
             /\ timestampUnixSeconds' = timestampUnixSeconds]_vars

\* a purge with ttl = 0 returned from an index all of whose records are
\* older than now
C13_Witness ==
    /\ last.op = "PurgeExpiredAt" /\ last.ttl = 0 /\ last.deleted = 0
    /\ AllOlder(ttlTree, timestampUnixSeconds, last.now)
    /\ Cardinality(DOMAIN ttlTree) >= 2

\* the same for a listing with a negative ttl
C13_WitnessList ==
    /\ last.op = "ListExpiredAt" /\ last.ttl < 0 /\ last.isNil
    /\ AllOlder(ttlTree, timestampUnixSeconds, last.now)

\* the item object with the given id
ItemOf(id) == CHOOSE o \in NodeItems \cup {NilItem} : o.id = id

\* the step is an UpsertAt of an item that has a key
IsKeyedUpsert ==
    /\ last'.op = "UpsertAt"
    /\ ItemOf(last'.item) # NilItem
    /\ ItemOf(last'.item).keyBytes # <<>>

\* C14: an Upsert of k at t1 reports isNew = true when k was absent and makes
\* Size one larger; a following Upsert of k at t2 reports isNew = false and
\* leaves Size as it is; after each of them there is one entry for k and
\* GetLastWriteUnix(k) is the second of the write, t2 after the second.
C14_UpsertTwice ==
    [][IsKeyedUpsert
       => LET it == ItemOf(last'.item)
              k == it.keyBytes
              got == GetLastWriteUnixResult(ttlTree', timestampUnixSeconds', it)
          IN /\ last'.isNew = (k \notin DOMAIN ttlTree)
             /\ DOMAIN ttlTree' = DOMAIN ttlTree \cup {k}
             /\ SizeResult(ttlTree')
                   = SizeResult(ttlTree) + (IF last'.isNew THEN 1 ELSE 0)
             /\ got.found
             /\ got.unix * TicksPerSecond <= last'.at
             /\ last'.at < (got.unix + 1) * TicksPerSecond
             /\ (last.op = "UpsertAt" /\ ItemOf(last.item) # NilItem
                 /\ ItemOf(last.item).keyBytes = k)
                => ~last'.isNew]_vars

\* the second of two Upserts of one key, made with another object and in a
\* later second than the first, reported isNew = false; the index holds one
\* entry
C14_Witness ==
    /\ last.op = "UpsertAt" /\ last.item = 2 /\ ~last.isNew
    /\ SizeResult(ttlTree) = 1
    /\ \E o \in DOMAIN timestampUnixSeconds :
          /\ o.id = 1
          /\ timestampUnixSeconds[o] = 0
          /\ timestampUnixSeconds[ttlTree[o.keyBytes]] = 1

\* C15 as stated: an Upsert on a key already in the index keeps the record
\* object the index holds for that key.
C15_InPlace ==
    [][(IsKeyedUpsert /\ ItemOf(last'.item).keyBytes \in DOMAIN ttlTree)
       => LET k == ItemOf(last'.item).keyBytes
          IN ttlTree'[k] = ttlTree[k]]_vars

\* C15 amended: an Upsert on a key already in the index stores the object
\* passed to it in the place of the object held before, which keeps its own
\* expiration; the index holds the same object as before only when that very
\* object was passed again.
C15_UpsertReplaces ==
    [][IsKeyedUpsert
       => LET it == ItemOf(last'.item)
              k == it.keyBytes
          IN /\ ttlTree'[k] = it
             /\ timestampUnixSeconds'[it] = Unix(last'.at)
             /\ \A o \in DOMAIN timestampUnixSeconds \ {it} :
                   timestampUnixSeconds'[o] = timestampUnixSeconds[o]
             /\ \A j \in DOMAIN ttlTree \ {k} : ttlTree'[j] = ttlTree[j]
             /\ k \in DOMAIN ttlTree
                => ((ttlTree'[k] = ttlTree[k]) <=> (it = ttlTree[k]))]_vars

\* an Upsert replaced the object stored for its key: the index holds the
\* object just passed, and the other object of that key, no longer in the
\* index, still carries the later second of its own write
C15_Witness ==
    /\ last.op = "UpsertAt" /\ last.item = 1 /\ ~last.isNew
    /\ <<1>> \in DOMAIN ttlTree /\ ttlTree[<<1>>].id = 1
    /\ timestampUnixSeconds[ttlTree[<<1>>]] = 0
    /\ \E o \in DOMAIN timestampUnixSeconds :
          o.id = 2 /\ timestampUnixSeconds[o] = 1

\* the items of a sequence
ItemSet(items) == {items[i] : i \in 1..Len(items)}

\* C16: GetNodeItem(k) returns the object the index holds for k, which is
\* the object of the most recent Upsert of k, and ListExpiredAt returns
\* objects the index holds; SetExpirationTime on such a handle changes the
\* expiration GetLastWriteUnix reports for the key and decides whether a
\* following ListExpiredAt lists the record and a following PurgeExpiredAt
\* deletes it.
C16_LiveHandles ==
    [][/\ (last'.op = "GetNodeItem" /\ last'.found)
          => LET k == ItemOf(last'.item).keyBytes
             IN /\ k \in DOMAIN ttlTree /\ ttlTree[k].id = last'.res
                /\ (last.op = "UpsertAt" /\ ItemOf(last.item).keyBytes = k)
                   => last'.res = last.item
       /\ last'.op = "ListExpiredAt"
          => \A i \in 1..Len(last'.out) :
                ttlTree[last'.out[i].keyBytes] = last'.out[i]
       /\ last'.op = "SetExpirationTime"
          => LET h == ItemOf(last'.item)
                 ts == timestampUnixSeconds'
                 got == GetLastWriteUnixResult(ttlTree', ts, h)
             IN /\ ttlTree' = ttlTree
                /\ ttlTree[h.keyBytes] = h
                /\ got.found /\ got.unix = Unix(last'.at)
                /\ \A now \in Times, ttl \in 1..MaxTTL :
                      LET old == got.unix * TicksPerSecond <= now - ttl
                      IN /\ old <=> h \in ItemSet(ListExpiredAtResult(
                                        ttlTree', ts, now, ttl, 0).out)
                         /\ old <=> h.keyBytes \notin DOMAIN
                               UnboundedPurge(ttlTree', ts, now, ttl).tree]_vars

\* the caller moved the expiration of a record through a handle it got from
\* the index to a later second: the record, expired before, is no longer
\* listed
C16_Witness ==
    /\ last.op = "SetExpirationTime"
    /\ LET h == ItemOf(last.item)
       IN /\ h.keyBytes \in DOMAIN ttlTree /\ ttlTree[h.keyBytes] = h
          /\ timestampUnixSeconds[h] = 1
          /\ h \notin ItemSet(ListExpiredAtResult(ttlTree,
                 timestampUnixSeconds, MaxTick, 2, 0).out)
          /\ h \in ItemSet(ListExpiredAtResult(ttlTree,
                 [timestampUnixSeconds EXCEPT ![h] = 0], MaxTick, 2, 0).out)

\* the items of a batch given by its ids
BatchOf(ids) == [i \in 1..Len(ids) |-> ItemOf(ids[i])]

\* the positions of a batch whose item has a non-empty key
Keyed(items) == {i \in 1..Len(items) : items[i].keyBytes # <<>>}

\* C17: UpsertManyAt(items, at) sets the expiration at on every item with a
\* non-empty key and skips the items with an empty key; of several items
\* with one key the last of the batch is the one stored; it returns the
\* number of distinct keys of the batch that were absent before, Size grows
\* by that number, and the same batch passed again returns 0.
C17_UpsertMany ==
    [][last'.op = "UpsertManyAt"
       => LET items == BatchOf(last'.items)
              keys == {items[i].keyBytes : i \in Keyed(items)}
              again == UpsertManyAtResult(ttlTree', timestampUnixSeconds',
                                          items, last'.at, 0)
          IN /\ \A i \in Keyed(items) :
                   /\ timestampUnixSeconds'[items[i]] = Unix(last'.at)
                   /\ (\A j \in Keyed(items) :
                          items[j].keyBytes = items[i].keyBytes => j <= i)
                      => ttlTree'[items[i].keyBytes] = items[i]
             /\ \A o \in DOMAIN timestampUnixSeconds :
                   o \notin {items[i] : i \in Keyed(items)}
                   => timestampUnixSeconds'[o] = timestampUnixSeconds[o]
             /\ DOMAIN ttlTree' = DOMAIN ttlTree \cup keys
             /\ \A k \in DOMAIN ttlTree \ keys : ttlTree'[k] = ttlTree[k]
             /\ last'.added = Cardinality(keys \ DOMAIN ttlTree)
             /\ SizeResult(ttlTree') = SizeResult(ttlTree) + last'.added
             /\ again.added = 0
             /\ (last.op = "UpsertManyAt" /\ last.items = last'.items)
                => last'.added = 0]_vars

\* a batch of two objects with the same key was written to an index that
\* did not hold the key: one key counted, the second object stored
C17_Witness ==
    /\ last.op = "UpsertManyAt" /\ last.items = <<1, 2>> /\ last.added = 1
    /\ ttlTree[<<1>>].id = 2
    /\ \A o \in DOMAIN timestampUnixSeconds :
          o.id \in {1, 2} => timestampUnixSeconds[o] = 1

\* a batch with an empty-key item and a new key: the empty key was skipped
C17_WitnessEmptyKey ==
    /\ last.op = "UpsertManyAt" /\ last.items = <<5, 3>> /\ last.added = 1
    /\ DOMAIN ttlTree = {<<1, 2>>}

\* C18: Delete(k) returns true exactly when k was in the index and leaves
\* Has(k) false; DeleteMany(keys) returns the number of distinct keys of the
\* batch that were in the index and removes them; both leave every other
\* key in place, and the same call repeated at once returns false / 0 and
\* changes nothing.
C18_DeleteAndDeleteMany ==
    [][/\ last'.op = "Delete"
          => LET it == ItemOf(last'.item)
                 k == it.keyBytes
                 keyed == it # NilItem /\ k # <<>>
                 again == TtlDeleteResult(ttlTree', it)
             IN /\ last'.deleted = (keyed /\ k \in DOMAIN ttlTree)
                /\ ~HasResult(ttlTree', it)
                /\ DOMAIN ttlTree' =
                      DOMAIN ttlTree \ (IF keyed THEN {k} ELSE {})
                /\ \A j \in DOMAIN ttlTree' : ttlTree'[j] = ttlTree[j]
                /\ timestampUnixSeconds' = timestampUnixSeconds
                /\ ~again.deleted /\ again.tree = ttlTree'
                /\ (last.op = "Delete" /\ last.item = last'.item)
                   => (~last'.deleted /\ ttlTree' = ttlTree)
       /\ last'.op = "DeleteMany"
          => LET items == BatchOf(last'.items)
                 keys == {items[i].keyBytes : i \in Keyed(items)}
                 again == DeleteManyResult(ttlTree', items, 0)
             IN /\ last'.deleted = Cardinality(keys \cap DOMAIN ttlTree)
                /\ DOMAIN ttlTree' = DOMAIN ttlTree \ keys
                /\ \A j \in DOMAIN ttlTree' : ttlTree'[j] = ttlTree[j]
                /\ timestampUnixSeconds' = timestampUnixSeconds
                /\ again.deleted = 0 /\ again.tree = ttlTree'
                /\ (last.op = "DeleteMany" /\ last.items = last'.items)
                   => (last'.deleted = 0 /\ ttlTree' = ttlTree)]_vars

\* a DeleteMany of two probes with the same key removed that key, counted
\* once, and left the other key of the index in place
C18_Witness ==
    /\ last.op = "DeleteMany" /\ last.items = <<1, 2>> /\ last.deleted = 1
    /\ DOMAIN ttlTree = {<<1, 2>>}

\* a Delete returned true and the key is gone while another key stays
C18_WitnessDelete ==
    /\ last.op = "Delete" /\ last.item = 3 /\ last.deleted
    /\ DOMAIN ttlTree = {<<1>>, <<2>>}

\* the keys a ForEach handed to its callback, in the order of the calls
VisitedKeys(visited) == [i \in 1..Len(visited) |-> visited[i].key]

\* C19: whatever Upserts and Deletes built the index, ForEach gives the
\* callback the keys of the index in strictly increasing byte order, each
\* once and with the expiration of its record, and makes no further call
\* once the callback has returned false: the keys visited are the smallest
\* keys of the index, as many as the callback accepted plus one.
C19_ForEachOrder ==
    [][(last'.op = "ForEach" /\ ~last'.callback.isNil)
       => LET seen == last'.visited
              keys == {seen[i].key : i \in 1..Len(seen)}
              stopAt == last'.callback.stopAt
              size == Cardinality(DOMAIN ttlTree)
          IN /\ \A i, j \in 1..Len(seen) :
                   i < j => BytesCompare(seen[i].key, seen[j].key) < 0
             /\ Len(seen) = (IF stopAt \in 1..size THEN stopAt ELSE size)
             /\ SmallestOf(keys, DOMAIN ttlTree, Len(seen))
             /\ \A i \in 1..Len(seen) :
                   seen[i].unix = timestampUnixSeconds[ttlTree[seen[i].key]]
             /\ ~last'.err]_vars

\* a traversal of an index of three keys was stopped by the second call of
\* the callback: it saw the two smallest keys, the shorter one first
C19_Witness ==
    /\ last.op = "ForEach" /\ last.callback.stopAt = 2
    /\ VisitedKeys(last.visited) = << <<1>>, <<1, 2>> >>
    /\ DOMAIN ttlTree = {<<1>>, <<1, 2>>, <<2>>}

\* the callback that visits everything and writes nothing
ReadAll == [isNil |-> FALSE, stopAt |-> 0, scribble |-> FALSE]

\* C20: the callback of ForEach gets a copy of each key: when it writes into
\* the slices it is given, the key set of the index, the order of a later
\* ForEach and what Has and GetLastWriteUnix return for the keys are as
\* before.
C20_KeyIsCopy ==
    [][(last'.op = "ForEach" /\ last'.callback.scribble)
       => /\ DOMAIN ttlTree' = DOMAIN ttlTree
          /\ ForEachResult(ttlTree', timestampUnixSeconds', ReadAll).visited
                = ForEachResult(ttlTree, timestampUnixSeconds, ReadAll).visited
          /\ \A o \in DOMAIN timestampUnixSeconds :
                /\ HasResult(ttlTree', o) = HasResult(ttlTree, o)
                /\ GetLastWriteUnixResult(ttlTree', timestampUnixSeconds', o)
                      = GetLastWriteUnixResult(ttlTree, timestampUnixSeconds, o)
          /\ \A i \in 1..Len(last'.visited) :
                last'.visited[i].key \in DOMAIN ttlTree']_vars

\* a callback that overwrote the first byte of every key it received has
\* visited an index of two keys, and the index still has these keys
C20_Witness ==
    /\ last.op = "ForEach" /\ last.callback.scribble
    /\ Len(last.visited) = 2
    /\ VisitedKeys(last.visited) = Ascend(DOMAIN ttlTree)

\* C21: PurgeExpiredAt is not atomic.  Its delete phase removes the key of
\* every collected item that the index still holds, whatever object and
\* whatever expiration the key has by then, so a key that an Upsert refreshed
\* to an expiration > now - ttl between the scan and the delete phase is
\* deleted all the same.
C21_PurgeDeletesRefreshed ==
    [][(purge.pc = "scanned" /\ purge'.pc = "idle")
       => /\ DOMAIN ttlTree' = DOMAIN ttlTree \ ItemKeys(purge.itemsToDelete)
          /\ last'.deleted
               = Cardinality(DOMAIN ttlTree \cap ItemKeys(purge.itemsToDelete))]_vars

\* A purge that another call interleaved has just returned 1; the keys
\* <<1, 2>> and <<2>> are indexed, so the key it deleted is <<1>>, whose only
\* object carries an expiration > now - ttl: the scan collected it when it
\* was older, and an UpsertAt refreshed it before the delete phase.
C21_Witness ==
    /\ last.op = "PurgeExpiredAt"
    /\ last.ttl > 0 /\ last.deleted = 1 /\ ~last.clean
    /\ ItemOf(4) \in DOMAIN timestampUnixSeconds
    /\ DOMAIN ttlTree = {<<1, 2>>, <<2>>}
    /\ timestampUnixSeconds[ItemOf(1)] * TicksPerSecond > last.now - last.ttl

(***************************************************************************)
(* Claims about concurrent callers, rejected arguments and returned memory.*)
(***************************************************************************)
\* the call of goroutine p is between taking and releasing the lock
Accessing(p) == procs[p].pc \in {"in", "check", "in2"}

\* the code that the call of p runs under the lock changes the index
Mutating(p) ==
    \/ procs[p].op \in {"Add", "Delete", "CompactIncremental", "UpsertAt",
                        "UpsertManyAt", "DeleteMany", "Reset"}
    \/ procs[p].op = "PurgeExpiredAt" /\ procs[p].pc = "in2"

\* C23: each store guards its index with one readers-writer lock.  While a
\* mutating operation (Add, Delete, Upsert, UpsertMany, DeleteMany, Reset,
\* CompactIncremental, the delete phase of PurgeExpiredAt) is between its
\* lock and its unlock, no other operation is; only read-only operations
\* (Get, Has, Len, Size, ForEach, the scans of ListExpiredAt and
\* PurgeExpiredAt) are inside together.
C23_WritersExclude ==
    \A p \in Procs :
        Accessing(p) /\ Mutating(p)
            => /\ mu.w = p
               /\ \A q \in Procs \ {p} : ~Accessing(q)

\* the delete phase of a PurgeExpiredAt holds the lock while another call
\* waits for it
C23_Witness ==
    \E p \in Procs, q \in Procs :
        /\ procs[p].op = "PurgeExpiredAt" /\ procs[p].pc = "in2"
        /\ procs[q].pc = "lock"

\* two read-only calls of the TTL index are inside together
C23_WitnessReaders ==
    \E p \in Procs, q \in Procs :
        /\ p # q /\ target = "ttl"
        /\ Accessing(p) /\ ~Mutating(p)
        /\ Accessing(q) /\ ~Mutating(q)

\* the same for Get and Len of BTreeIndexedStorage
C23_WitnessStoreReaders ==
    \E p \in Procs, q \in Procs :
        /\ Holding(p, "Get") /\ Holding(q, "Len")

\* the call of p is at code that reads or writes s.tombstones
CounterAccess(p) ==
    /\ target = "btree"
    /\ \/ procs[p].op = "Delete" /\ procs[p].pc \in {"in", "check"}
       \/ procs[p].op = "CompactIncremental" /\ procs[p].pc = "in"

\* C24: in BTreeIndexedStorage the tombstone counter is incremented and
\* compared with the threshold by Delete, and reset by CompactIncremental,
\* only while the goroutine holds the write lock.  So the threshold check
\* reads the value its own increment left (nothing incremented or reset the
\* counter in between), and no increment is lost: the counter is the number
\* of cleared slots.
C24_CounterUnderLock ==
    /\ \A p \in Procs :
          CounterAccess(p)
              => /\ mu.w = p /\ mu.r = {}
                 /\ procs[p].pc = "check" => tombstones = procs[p].counted
    /\ target = "btree"
          => tombstones = Cardinality({i \in 1..Len(storage) : storage[i] = Nil})

\* a Delete has incremented the counter and is about to check the threshold
\* while a launched CompactIncremental waits for the lock to reset it
C24_Witness ==
    \E p \in Procs, q \in Procs :
        /\ procs[p].op = "Delete" /\ procs[p].pc = "check"
        /\ procs[p].counted = 2
        /\ procs[q].op = "CompactIncremental" /\ procs[q].pc = "lock"
        /\ procs[q].bg

\* goroutine p returns from Size in this step
SizeReturns(p) == Holding(p, "Size") /\ procs'[p] = NotRunning

\* the keys of the fixed key set
FixedKeys == {o.keyBytes : o \in KeyedItems}

\* C22: with concurrent Upserts of items of a fixed key set and concurrent
\* ForEach, Has and Size and no deletes, under any interleaving no operation
\* panics, every operation that was called returns, and every result of
\* Size is the number of distinct keys upserted so far: at most the size of
\* the key set and not zero once an Upsert has completed.
C22_ReadersWriters ==
    /\ [](last.op # "panic")
    /\ [][\A p \in Procs :
            SizeReturns(p)
                => /\ last'.n = Cardinality(live)
                   /\ last'.n <= Cardinality(FixedKeys)
                   /\ live # {} => last'.n > 0]_vars
    /\ \A p \in Procs : (procs[p].pc # "idle") ~> (procs[p].pc = "idle")

\* Size has returned 2 after both objects of key <<1>> and the object of
\* key <<2>> were upserted, while an UpsertAt waits for the lock
C22_Witness ==
    /\ last.op = "Size" /\ last.n = 2
    /\ ttlTree[<<1>>].id = 2
    /\ timestampUnixSeconds = [o \in KeyedItems |-> 1]
    /\ \E q \in Procs : procs[q].op = "UpsertAt" /\ procs[q].pc = "lock"

\* C25: compaction has no single-flight guard.  A Delete that leaves the
\* tombstone ratio above the threshold starts a goroutine even while
\* goroutines started by earlier Deletes have not run yet, each started
\* goroutine runs its own CompactIncremental, so two or more launched
\* compactions are unfinished at the same time.
C25_NoSingleFlight ==
    [][/\ (last'.op = "Delete" /\ last'.launched /\ pending >= 1)
            => pending' = pending + 1
       /\ (last'.op = "Compact" /\ last'.bg) => pending' = pending - 1]_vars

\* the second of two Deletes, each above the threshold, has started a second
\* goroutine while the first one has not run
C25_Witness ==
    /\ last.op = "Delete" /\ last.launched
    /\ pending = 2
    /\ tombstones = 2

\* the expiration of every record of the index is after the purger's cutoff
NoStale ==
    \A k \in DOMAIN ttlTree :
        timestampUnixSeconds[ttlTree[k]] > Unix(TimeAdd(PurgeNow, -PurgeTtl))

\* C26: while writers upsert only expirations after the cutoff and
\* PurgeExpiredAt(now, ttl, n) with n > 0 is called again and again, under
\* any fair interleaving the index eventually holds no record with an
\* expiration <= cutoff, and from the moment it holds none it never holds
\* one again.
C26_PurgeConverges ==
    /\ <>NoStale
    /\ [][NoStale => NoStale']_vars

\* A purge limited to one record has returned 1 after a writer ran between
\* its phases; the index holds records, all of them fresh, while two objects
\* that had a stale record still carry their old expiration.
C26_Witness ==
    /\ NoStale
    /\ last.op = "PurgeExpiredAt" /\ last.maxToDelete = 1 /\ ~last.clean
    /\ last.deleted = 1
    /\ ttlTree # EmptyMap
    /\ Cardinality({o \in DOMAIN timestampUnixSeconds :
                       timestampUnixSeconds[o] = 0 /\ Len(o.keyBytes) > 0}) >= 2

\* a batch with its nil entries removed
WithoutNil(items) == SelectSeq(items, LAMBDA x : x # NilItem)

\* C27: UpsertManyAt and DeleteMany skip the nil entries of their batch and
\* do not panic: the value they return and the index they leave are those
\* of the same call on the batch with its nil entries removed.
C27_NilEntriesSkipped ==
    [][/\ last'.op # "panic"
       /\ last'.op = "UpsertManyAt"
            => LET r == UpsertManyAtResult(ttlTree, timestampUnixSeconds,
                            WithoutNil(BatchOf(last'.items)), last'.at, 0)
               IN /\ last'.added = r.added
                  /\ ttlTree' = r.tree
                  /\ timestampUnixSeconds' = r.ts
       /\ last'.op = "DeleteMany"
            => LET r == DeleteManyResult(ttlTree,
                            WithoutNil(BatchOf(last'.items)), 0)
               IN /\ last'.deleted = r.deleted
                  /\ ttlTree' = r.tree]_vars

\* the item with this id is nil or has an empty key
NoKey(id) == ItemOf(id) = NilItem \/ Len(ItemOf(id).keyBytes) = 0

\* a batch with the entries that have an empty key removed
WithKey(items) == SelectSeq(items, LAMBDA x : x = NilItem \/ Len(x.keyBytes) > 0)

\* C28: an operation of the TTL index that is given an empty or nil key
\* reports the negative outcome as a value and leaves the index unchanged:
\* UpsertAt, Delete and Has return false, GetNodeItem and GetLastWriteUnix
\* return not-found, and UpsertManyAt and DeleteMany return and do what they
\* do for the batch without its empty-key entries.  No record with an empty
\* key is ever stored.
C28_EmptyKeyRejected ==
    /\ [](<<>> \notin DOMAIN ttlTree)
    /\ [][/\ (last'.op \in {"UpsertAt", "Delete", "Has", "GetNodeItem",
                            "GetLastWriteUnix"} /\ NoKey(last'.item))
              => /\ UNCHANGED <<ttlTree, timestampUnixSeconds>>
                 /\ last'.op = "UpsertAt" => ~last'.isNew
                 /\ last'.op = "Delete" => ~last'.deleted
                 /\ last'.op = "Has" => ~last'.exists
                 /\ last'.op = "GetNodeItem" => ~last'.found /\ last'.res = 0
                 /\ last'.op = "GetLastWriteUnix"
                       => ~last'.found /\ last'.unix = 0
          /\ last'.op = "UpsertManyAt"
              => LET r == UpsertManyAtResult(ttlTree, timestampUnixSeconds,
                              WithKey(BatchOf(last'.items)), last'.at, 0)
                 IN /\ last'.added = r.added
                    /\ ttlTree' = r.tree
                    /\ timestampUnixSeconds' = r.ts
          /\ last'.op = "DeleteMany"
              => LET r == DeleteManyResult(ttlTree,
                              WithKey(BatchOf(last'.items)), 0)
                 IN /\ last'.deleted = r.deleted
                    /\ ttlTree' = r.tree
                    /\ UNCHANGED timestampUnixSeconds]_vars

\* GetLastWriteUnix of the item with the empty key answered not-found on an
\* index that holds records
C28_Witness ==
    /\ last.op = "GetLastWriteUnix" /\ last.item = 5 /\ ~last.found
    /\ Cardinality(DOMAIN ttlTree) = 2

\* an UpsertAt of the item with the empty key returned false
C28_WitnessUpsert ==
    /\ last.op = "UpsertAt" /\ last.item = 5 /\ ~last.isNew
    /\ ttlTree # EmptyMap

\* a DeleteMany of the empty-key item and an indexed key deleted one key
C28_WitnessBatch ==
    /\ last.op = "DeleteMany" /\ last.items = <<5, 1>> /\ last.deleted = 1

\* C29: ForEach returns a non-nil error exactly when the callback is nil;
\* then it visits nothing and leaves the index unchanged.  With a callback
\* it returns a nil error, whether the traversal reached the end or the
\* callback stopped it.
C29_ForEachError ==
    [][last'.op = "ForEach"
       => /\ last'.err <=> last'.callback.isNil
          /\ last'.callback.isNil
                => /\ last'.visited = <<>>
                   /\ UNCHANGED <<ttlTree, timestampUnixSeconds>>
          /\ (~last'.callback.isNil /\ last'.callback.stopAt
                  \in 1..Cardinality(DOMAIN ttlTree))
                => /\ Len(last'.visited) = last'.callback.stopAt
                   /\ ~last'.err]_vars

\* ForEach(nil) on an index that holds two records returned the error
C29_Witness ==
    /\ last.op = "ForEach" /\ last.callback.isNil /\ last.err
    /\ Cardinality(DOMAIN ttlTree) = 2

\* a traversal of three records that the callback stopped at the first one
\* returned no error
C29_WitnessStopped ==
    /\ last.op = "ForEach" /\ last.callback.stopAt = 1 /\ ~last.err
    /\ Len(last.visited) = 1
    /\ Cardinality(DOMAIN ttlTree) = 3

\* C30: the byte slice that BTreeIndexedStorage.Get returns is a copy of
\* the stored value: when the caller writes into it, a Get of the same key
\* returns what it returned before the write.
C30_GetReturnsCopy ==
    [][last'.op = "Write"
       => GetResult(tree', storage', last'.key)
            = GetResult(tree, storage, last'.key)]_vars

(***************************************************************************)
(* Claims about Reset, mixed record variants, the transaction manager and  *)
(* the state of the stores between calls.                                  *)
(***************************************************************************)
\* C31: after Reset on a TTL index with any contents, Size() is 0 and
\* Has(k) is false for every key; an Upsert of any key after it, a key that
\* was stored before the Reset included, reports isNew = true and makes
\* Size() 1.  Stated on the state a Reset leaves and on the call that
\* follows it.
C31_ResetClearsAll ==
    /\ [](last.op = "Reset"
            => /\ SizeResult(ttlTree) = 0
               /\ \A item \in ItemArgs : ~HasResult(ttlTree, item)
               /\ \A item \in KeyedItems, at \in Times :
                     LET r == UpsertAtResult(ttlTree, timestampUnixSeconds,
                                             item, at)
                     IN r.isNew /\ SizeResult(r.tree) = 1)
    /\ [][last.op = "Reset"
            => /\ last'.op = "Size" => last'.n = 0
               /\ last'.op = "Has" => ~last'.exists
               /\ (last'.op = "UpsertAt" /\ ItemOf(last'.item) \in KeyedItems)
                    => last'.isNew /\ SizeResult(ttlTree') = 1]_vars

\* a Reset cleared two keys, and the next call stored one of them again
C31_Witness ==
    /\ scenario.phase = "first"
    /\ Cardinality(scenario.deleted) >= 2
    /\ last.op = "UpsertAt" /\ last.isNew
    /\ ItemOf(last.item).keyBytes \in scenario.deleted
    /\ SizeResult(ttlTree) = 1

\* a Reset cleared two keys, and the next call is a Has of one of them
C31_WitnessHas ==
    /\ scenario.phase = "first"
    /\ Cardinality(scenario.deleted) >= 2
    /\ last.op = "Has" /\ ~last.exists
    /\ ItemOf(last.item).keyBytes \in scenario.deleted

\* the index holds a record of the other variant for the key of the item
OtherVariant(t, item) ==
    /\ item # NilItem
    /\ item.keyBytes \in DOMAIN t
    /\ t[item.keyBytes].kind # item.kind

C32_WitnessOrder ==
    /\ last.op = "ForEach" /\ last.callback = ReadAll
    /\ Len(last.visited) = 2
    /\ ttlTree[last.visited[1].key].kind = "ValueNodeItem"
    /\ ttlTree[last.visited[2].key].kind = "FilterNodeItem"

\* an UpsertAt of a value item found its key in the index, and the filter
\* object with that key has been upserted in this run
C32_WitnessReplace ==
    /\ last.op = "UpsertAt" /\ ~last.isNew
    /\ ItemOf(last.item).kind = "ValueNodeItem"
    /\ \E o \in DOMAIN timestampUnixSeconds :
          /\ o.kind = "FilterNodeItem"
          /\ o.keyBytes = ItemOf(last.item).keyBytes
          /\ timestampUnixSeconds[o] # 0

\* C33 as claimed: ExecuteReadWrite(fn) retries when the commit fails with
\* a write conflict: it re-runs fn in a fresh transaction and does not
\* return the conflict error to the caller after the first attempt.
C33_ExecuteReadWriteRetries ==
    (txn.fn = "ExecuteReadWrite" /\ txn.pc = "done" /\ txn.runs = 1)
        => txn.result # "ErrConflict"

\* C33 as amended: ExecuteReadWrite(fn) runs fn once, in one transaction,
\* and returns what fn or the commit returned, a write conflict included;
\* the retry on a write conflict is that of ExecuteReadWriteWithContext,
\* which after a conflict that leaves retries goes to its backoff with the
\* transaction discarded and runs every attempt in a transaction of its own.
C33_SinglePass ==
    /\ []((txn.fn = "ExecuteReadWrite" /\ txn.pc = "done")
            => /\ txn.runs = 1 /\ txn.txs = 1 /\ ~txn.open
               /\ txn.commit # "none" => txn.result = CommitError(txn.commit))
    /\ [][(/\ txn.fn = "ExecuteReadWriteWithContext"
           /\ txn.pc = "ran" /\ txn'.pc # "ran"
           /\ ~txn.cancelled /\ txn'.commit = "ErrConflict"
           /\ txn.attempt < maxRetries)
            => txn'.pc = "sleep" /\ ~txn'.open]_vars
    /\ [][(/\ txn.fn = "ExecuteReadWriteWithContext"
           /\ txn.pc = "run" /\ txn'.pc # "run")
            => /\ txn'.runs = txn.attempt + 1
               /\ txn.txs = txn'.runs /\ txn.open]_vars

\* an ExecuteReadWrite returned the write conflict of its only attempt
C33_Witness ==
    /\ txn.fn = "ExecuteReadWrite" /\ txn.pc = "done"
    /\ txn.runs = 1 /\ txn.result = "ErrConflict"

\* an ExecuteReadWriteWithContext ran its action again after a conflict
C33_WitnessRetry ==
    /\ txn.fn = "ExecuteReadWriteWithContext" /\ txn.pc = "ran"
    /\ txn.runs = 2 /\ txn.commit = "ErrConflict"

\* the call in progress is an ExecuteReadWriteWithContext
WithContext == txn.fn = "ExecuteReadWriteWithContext"

\* C40: ExecuteReadWriteWithContext always returns, after at most
\* maxRetries + 1 runs of the action.  It starts another attempt only after
\* a commit failed with ErrConflict while attempt < maxRetries and with the
\* context not cancelled when the backoff is over; an error of the action,
\* a panic of the action (turned into an error), another error of the
\* commit or a cancelled context ends the call at once, with that error and
\* with the transaction discarded.
C40_BoundedRetries ==
    /\ [](WithContext => txn.runs <= maxRetries + 1)
    /\ [](WithContext /\ txn.pc = "done" => ~txn.open)
    /\ (WithContext /\ txn.pc \notin {"idle", "done"}) ~> (txn.pc = "done")
    /\ [][(WithContext /\ txn.pc = "top" /\ txn'.pc = "run" /\ txn.attempt > 0)
            => /\ txn.commit = "ErrConflict"
               /\ txn.attempt - 1 < maxRetries
               /\ ~txn.cancelled
               /\ txn.runs = txn.attempt]_vars
    /\ [][(WithContext /\ txn.pc = "top" /\ txn.cancelled)
            => /\ txn'.pc = "done" /\ txn'.result = "ctxErr"
               /\ txn'.runs = txn.runs]_vars
    /\ [][(WithContext /\ txn.pc = "run" /\ txn'.pc \notin {"run", "ran"})
            => /\ txn'.pc = "done" /\ ~txn'.open
               /\ txn'.result \in {"actionErr", "panicErr"}]_vars
    /\ [][(WithContext /\ txn.pc = "ran" /\ txn'.pc # "ran")
            => IF txn.cancelled
               THEN txn'.pc = "done" /\ txn'.result = "ctxErr" /\ ~txn'.open
               ELSE IF txn'.commit = "err"
               THEN txn'.pc = "done" /\ txn'.result = "commitErr" /\ ~txn'.open
               ELSE IF txn'.commit = "ErrConflict"
               THEN IF txn.attempt < maxRetries
                    THEN txn'.pc = "sleep" /\ ~txn'.open
                    ELSE /\ txn'.pc = "done" /\ ~txn'.open
                         /\ txn'.result = "ErrConflict"
               ELSE txn'.pc = "done" /\ txn'.result = "nil"]_vars
    /\ [][(WithContext /\ txn.pc = "sleep" /\ txn'.pc = "done")
            => txn.cancelled /\ txn'.result = "ctxErr"]_vars

\* a call gave up with the conflict of its last permitted attempt
C40_Witness ==
    /\ WithContext /\ txn.pc = "done"
    /\ txn.runs = maxRetries + 1 /\ txn.result = "ErrConflict"

\* a call whose context was cancelled after a conflict returned the error
\* of the context; it had run the action once
C40_WitnessCancelled ==
    /\ WithContext /\ txn.pc = "done"
    /\ txn.runs = 1 /\ txn.commit = "ErrConflict" /\ txn.result = "ctxErr"

\* the action panicked in the second attempt
C40_WitnessPanic ==
    /\ WithContext /\ txn.pc = "done"
    /\ txn.runs = 2 /\ txn.result = "panicErr"

\* the store is compact and holds exactly the keys added and not deleted
CompactAndComplete ==
    /\ tombstones = 0
    /\ Len(storage) = LenResult(tree)
    /\ LenResult(tree) = Cardinality(live)
    /\ \A k \in live : GetResult(tree, storage, k).found
    /\ \A k \in HistKeys \ live : ~GetResult(tree, storage, k).found

\* C34: whenever a Delete leaves tombstones / len(storage) above the
\* threshold, and the goroutine it started is scheduled in the end, the
\* store reaches a state with tombstones = 0 and len(storage) = Len() in
\* which Len() is the number of keys added and not deleted: the deleted keys
\* are gone and the others can still be retrieved.
C34_BackgroundCompacts ==
    (last.op = "Delete" /\ last.launched) ~> CompactAndComplete

\* the callback of the ForEach of goroutine p is running a call of its own
InCallback(p) == "outer" \in DOMAIN procs[p]

\* C35: ForEach collects copies of the (key, timestamp) pairs under the
\* read lock and invokes the callback only after it has released the lock,
\* so a callback that calls a mutating operation of the same tree comes
\* back, and the ForEach with it, instead of deadlocking.
C35_CallbackOutsideLock ==
    /\ [](\A p \in Procs : InCallback(p) => p \notin mu.r)
    /\ \A p \in Procs : (procs[p].pc # "idle") ~> (procs[p].pc = "idle")

\* C36: whenever the lock of BTreeIndexedStorage is free, the position of
\* every index entry is below len(storage) and no two index entries have the
\* same position, after any interleaving of Add, Delete and direct or
\* background CompactIncremental; so Get never indexes outside storage and
\* never returns the value of another key: as long as a key stays indexed
\* Get returns for it what its Add stored.
C36_PositionsValid ==
    /\ []((target = "btree" /\ mu.w = 0)
            => /\ \A k \in DOMAIN tree : tree[k] \in 0..(Len(storage) - 1)
               /\ \A k1, k2 \in DOMAIN tree : tree[k1] = tree[k2] => k1 = k2)
    /\ [][target = "btree"
            => /\ \A k \in DOMAIN tree \cap DOMAIN tree' :
                     GetResult(tree', storage', k).val
                        = GetResult(tree, storage, k).val
               /\ \A k \in DOMAIN tree' \ DOMAIN tree :
                     /\ last'.op = "Add" /\ last'.key = k
                     /\ GetResult(tree', storage', k).val = last'.val]_vars

\* a background compaction moved an entry to position 0 of a store that
\* still has a tombstone behind it
C36_Witness ==
    /\ target = "btree"
    /\ last.op = "Delete" /\ last.found
    /\ \E k \in DOMAIN tree : tree[k] = 0 /\ slotKey[1] = k
    /\ Len(storage) = 2 /\ tombstones = 1
    /\ pending > 0

\* a compaction has just moved the entry of the second key to position 0
C36_WitnessMoved ==
    /\ target = "btree"
    /\ last.op = "Compact" /\ last.bg
    /\ MkKey(2) \in DOMAIN tree /\ tree[MkKey(2)] = 0
    /\ Len(storage) = 1 /\ Len(slotKey) = 1

\* the number of cleared (nil) slots of a backing sequence
ClearedSlots(st) == Cardinality({i \in 1..Len(st) : st[i] = Nil})

\* C37: whenever the lock of BTreeIndexedStorage is free and every added
\* value was non-nil, the tombstone counter equals the number of nil slots of
\* storage, which equals len(storage) - Len(), after any interleaving of Add,
\* Delete and CompactIncremental.
C37_TombstonesCountClearedSlots ==
    (target = "btree" /\ mu.w = 0)
        => /\ tombstones = ClearedSlots(storage)
           /\ ClearedSlots(storage) = Len(storage) - LenResult(tree)

\* a Delete has just cleared a second slot and launched a compaction
C37_Witness ==
    /\ last.op = "Delete" /\ last.found /\ last.launched
    /\ tombstones = 2
    /\ ClearedSlots(storage) = 2

\* an interrupted scan has just replaced a store that had a cleared slot and
\* more indexed keys than the scan visited
C37_WitnessInterrupted ==
    /\ last.op = "Compact"
    /\ batchSize > 0 /\ last.scanned = batchSize /\ last.indexed > last.scanned
    /\ tombstones = 0
    /\ Len(storage) = 1

\* C39: CompactIncremental is idempotent for every batchSize: a second run
\* right after a first run leaves the index key set, every key's position and
\* value, storage and the tombstone counter as the first run left them.
C39_CompactIdempotent ==
    /\ [][(target = "btree" /\ last'.op = "Compact")
            => LET again == CompactResult(tree', storage', tombstones', batchSize')
               IN /\ DOMAIN again.tree = DOMAIN tree'
                  /\ \A k \in DOMAIN tree' :
                        /\ again.tree[k] = tree'[k]
                        /\ GetResult(again.tree, again.storage, k)
                              = GetResult(tree', storage', k)
                  /\ again.storage = storage'
                  /\ again.tombstones = tombstones']_vars
    /\ [][(target = "btree" /\ last.op = "Compact" /\ last'.op = "Compact")
            => /\ tree' = tree
               /\ storage' = storage
               /\ tombstones' = tombstones]_vars

\* a first run with batchSize 2 has just stopped at its second key and
\* dropped an indexed key (one whose value is nil, or one it did not reach),
\* and left a non-empty store for a second run
C39_Witness ==
    /\ target = "btree"
    /\ last.op = "Compact"
    /\ batchSize = 2 /\ last.scanned = 2
    /\ last.indexed > Cardinality(DOMAIN tree)
    /\ Cardinality(DOMAIN tree) >= 1
    /\ Len(storage) = Cardinality(DOMAIN tree)

\* a second run in a row: the run before it left one key and no tombstone,
\* and a background run is still to come
C39_WitnessSecond ==
    /\ target = "btree"
    /\ last.op = "Compact" /\ last.indexed = 1 /\ last.scanned = 1
    /\ Cardinality(DOMAIN tree) = 1
    /\ tombstones = 0
    /\ pending > 0

\* the step is goroutine p's item.SetExpirationTime(ts) of UpsertAt on the
\* object o
SetsExpiration(p, o) ==
    /\ procs[p] = NotRunning
    /\ procs'[p].op = "UpsertAt" /\ procs'[p].pc = "lock"
    /\ procs'[p].item = o

\* goroutine q is in the middle of an operation that reads the expiration of
\* the object o: it is inside ForEach while o is stored, or it is
\* GetLastWriteUnix between finding o and reading its expiration
AccessesExpiration(q, o) ==
    \/ /\ procs[q].op = "ForEach" /\ procs[q].pc = "in"
       /\ o \in Range(ttlTree)
    \/ /\ procs[q].op = "GetLastWriteUnix" /\ procs[q].pc = "read"
       /\ procs[q].res = o

\* C38: the expiration of a record that is stored in the index is read and
\* written only under the lock of the index: UpsertAt's SetExpirationTime on
\* an object that is already in the index never runs while another goroutine
\* is in the middle of a ForEach over the index or of a GetLastWriteUnix that
\* found that object.
C38_ExpirationUnderLock ==
    [][\A p \in Procs : \A o \in Range(ttlTree) :
          SetsExpiration(p, o)
             => \A q \in Procs \ {p} : ~AccessesExpiration(q, o)]_vars

====
